---- MODULE Spec2Model ----
(***************************************************************************)
(* A model of the health-data importer (src/import_health.py) and of the   *)
(* dashboard's read path (src/app.py): the SQLite store with its committed *)
(* state and the importer's open transaction, the streaming parse loop of  *)
(* import_from_xml, and the requests api_data / api_snapshot with the      *)
(* pandas resampling they perform.                                         *)
(***************************************************************************)
EXTENDS Integers, Sequences, FiniteSets, TLC

VARIABLES
    db,         \* the committed content of the SQLite file, as any connection reads it
    imp,        \* per importer: the locals of one run of import_from_xml
    nimports,   \* how many imports have been started
    rd,         \* the locals of the request being served (api_data / api_snapshot)
    nrequests   \* how many requests have been started

vars == <<db, imp, nimports, rd, nrequests>>

-----------------------------------------------------------------------------
(* Bounds of the model *)

MaxEvents == 3      \* parse events of one document
MaxImports == 2     \* imports run one after the other
MaxRequests == 1    \* requests served

(* src/import_health.py:43 sets BATCH_SIZE = 5000.  The model runs the same *)
(* code with a batch of 2 rows, so that a full batch fits a short document. *)
BATCH_SIZE == 2

-----------------------------------------------------------------------------
(* Python values.  None, strings and floats are records, so that any two    *)
(* of them can be compared.                                                 *)

None == [none |-> TRUE]
Str(s) == [str |-> s]
Num(n) == [num |-> n, den |-> 1]      \* a float that is a whole number
NaN == [nan |-> TRUE]                 \* float("nan")

IsStr(v) == "str" \in DOMAIN v
IsNum(v) == "num" \in DOMAIN v

(* Time.  An instant is a number: InstantsPerHour instants in every hour,   *)
(* HoursPerDay hours in every day.  Instant 0 of an hour is hh:00:00 and    *)
(* the last instant of an hour is hh:59:59.                                 *)
InstantsPerHour == 2
HoursPerDay == 24
InstantsPerDay == HoursPerDay * InstantsPerHour

Instant(day, hour, s) == (day * HoursPerDay + hour) * InstantsPerHour + s
HourOf(t) == t \div InstantsPerHour            \* the hour an instant lies in
DayOf(t) == t \div InstantsPerDay              \* the calendar day of an instant
HourStart(h) == h * InstantsPerHour
DayStart(d) == d * InstantsPerDay

(* The text 'YYYY-MM-DD HH:MM:SS' of an instant (19 characters) followed by *)
(* a suffix such as ' -0700'; and the text 'YYYY-MM-DD' of a day.           *)
Stamp(t, suffix) == [stamp |-> t, tz |-> suffix]
DayStr(d) == [day |-> d]
IsStamp(v) == "stamp" \in DOMAIN v
IsDayStr(v) == "day" \in DOMAIN v

StrLen(v) ==
    IF IsStamp(v) THEN 19 + Len(v.tz)
    ELSE IF IsDayStr(v) THEN 10
    ELSE Len(v.str)

\* Python truthiness of an attribute value: None and "" are false.
Truthy(v) == v # None /\ StrLen(v) > 0

\* s[:19].  The other texts of the model are at most 19 characters long.
Prefix19(v) == IF IsStamp(v) THEN Stamp(v.stamp, "") ELSE v

parse_date(date_str) ==
    IF Truthy(date_str) /\ StrLen(date_str) > 19 THEN Prefix19(date_str) ELSE date_str

(* float(s) and int(s) on the numerals of the model; any other text raises  *)
(* ValueError.                                                              *)
FloatTable ==
    ("0" :> Num(0)) @@ ("5" :> Num(5)) @@ ("7" :> Num(7)) @@ ("30" :> Num(30)) @@
    ("45" :> Num(45)) @@ ("100" :> Num(100)) @@ ("140" :> Num(140)) @@ ("nan" :> NaN)
IntTable ==
    ("0" :> Num(0)) @@ ("5" :> Num(5)) @@ ("7" :> Num(7)) @@ ("30" :> Num(30)) @@
    ("45" :> Num(45)) @@ ("100" :> Num(100)) @@ ("140" :> Num(140))

FloatRaises(v) == ~(IsStr(v) /\ v.str \in DOMAIN FloatTable)
Float(v) == FloatTable[v.str]
IntRaises(v) == ~(IsStr(v) /\ v.str \in DOMAIN IntTable)
Int_(v) == IntTable[v.str]

\* a conversion that gives 0 where there is no number
SafeFloatZero(value) ==
    IF value = None \/ value = Str("") THEN Num(0)
    ELSE IF FloatRaises(value) THEN Num(0) ELSE Float(value)

_safe_float(value) ==
    IF value = None \/ value = Str("") THEN None
    ELSE IF FloatRaises(value) THEN None ELSE Float(value)

_safe_int(value) ==
    IF value = None \/ value = Str("") THEN None
    ELSE IF IntRaises(value) THEN None ELSE Int_(value)

\* elem.attrib.get(key, default)
Get(attrib, key, default) == IF key \in DOMAIN attrib THEN attrib[key] ELSE default

ALLOWED_RECORD_TYPES == {
    Str("HKQuantityTypeIdentifierBloodGlucose"),
    Str("HKQuantityTypeIdentifierStepCount"),
    Str("HKQuantityTypeIdentifierHeartRate"),
    Str("HKQuantityTypeIdentifierDistanceWalkingRunning"),
    Str("HKQuantityTypeIdentifierActiveEnergyBurned"),
    Str("HKQuantityTypeIdentifierBasalEnergyBurned"),
    Str("HKQuantityTypeIdentifierDistanceCycling") }

-----------------------------------------------------------------------------
(* The store: three tables and their indexes.  A table is absent (dropped, *)
(* or never created) or present with its rows in rowid order.              *)

AbsentTable == [present |-> FALSE, rows |-> <<>>]
EmptyTable == [present |-> TRUE, rows |-> <<>>]

NoTables ==
    [records |-> AbsentTable, activity_summaries |-> AbsentTable,
     workouts |-> AbsentTable, indexes |-> {}]

TableNames == <<"records", "activity_summaries", "workouts">>

IndexesOf(table) ==
    CASE table = "records" -> {"idx_records_type_date", "idx_records_date"}
      [] table = "activity_summaries" -> {"idx_activity_date"}
      [] table = "workouts" -> {"idx_workouts_type_date"}

\* DROP TABLE IF EXISTS <table>: the table goes, and its indexes with it.
DropTable(store, table) ==
    [store EXCEPT ![table] = AbsentTable, !.indexes = @ \ IndexesOf(table)]

\* CREATE TABLE <table> (...): an empty table.
CreateTable(store, table) == [store EXCEPT ![table] = EmptyTable]

IsError(x) == "error" \in DOMAIN x
Error(kind) == [error |-> kind]

NStatements == 6

\* the k-th statement of _create_tables: three DROP TABLE IF EXISTS, then
\* three CREATE TABLE, which fails on a table that exists
CreateTablesStmt(store, k) ==
    IF k <= 3 THEN DropTable(store, TableNames[k])
    ELSE IF store[TableNames[k - 3]].present THEN Error("OperationalError")
    ELSE CreateTable(store, TableNames[k - 3])

(* The NOT NULL columns of the three tables.  SQLite binds a NaN float as   *)
(* NULL, so a NaN value fails value REAL NOT NULL.                          *)
IsNull(v) == v = None \/ v = NaN

RecordRowOK(r) == ~IsNull(r.type) /\ ~IsNull(r.start_date) /\ ~IsNull(r.value)
ActivityRowOK(r) == ~IsNull(r.date)
WorkoutRowOK(r) == ~IsNull(r.activity_type) /\ ~IsNull(r.start_date)

RECURSIVE SelectSeq_(_, _)
\* the rows of a sequence whose date differs from d, in order
SelectSeq_(rows, d) ==
    IF rows = <<>> THEN <<>>
    ELSE IF Head(rows).date = d THEN SelectSeq_(Tail(rows), d)
    ELSE <<Head(rows)>> \o SelectSeq_(Tail(rows), d)

RECURSIVE InsertPlain(_, _, _)
\* INSERT INTO <table> for every row of the batch, in order
InsertPlain(store, table, batch) ==
    IF batch = <<>> THEN store
    ELSE IF ~store[table].present THEN Error("OperationalError")
    ELSE IF table = "records" /\ ~RecordRowOK(Head(batch)) THEN Error("IntegrityError")
    ELSE IF table = "workouts" /\ ~WorkoutRowOK(Head(batch)) THEN Error("IntegrityError")
    ELSE InsertPlain([store EXCEPT ![table].rows = Append(@, Head(batch))], table, Tail(batch))

RECURSIVE InsertNoReplace(_, _)
\* INSERT without OR REPLACE into a table whose date is not UNIQUE
InsertNoReplace(store, batch) ==
    IF batch = <<>> THEN store
    ELSE InsertNoReplace([store EXCEPT !.activity_summaries.rows = Append(@, Head(batch))],
                         Tail(batch))

RECURSIVE InsertOrReplace(_, _)
\* INSERT OR REPLACE INTO activity_summaries: date is UNIQUE, so the row of
\* the same date is deleted before the new row is inserted.
InsertOrReplace(store, batch) ==
    IF batch = <<>> THEN store
    ELSE IF ~store.activity_summaries.present THEN Error("OperationalError")
    ELSE IF ~ActivityRowOK(Head(batch)) THEN Error("IntegrityError")
    ELSE InsertOrReplace(
            [store EXCEPT !.activity_summaries.rows =
                Append(SelectSeq_(@, Head(batch).date), Head(batch))],
            Tail(batch))

(* The connection's transaction.  txn = None: no transaction is open and    *)
(* every statement commits by itself.  The first INSERT begins one: from    *)
(* then on the connection works on its own view of the store, which         *)
(* replaces the committed store at conn.commit() and is dropped when the    *)
(* connection goes away without a commit.                                   *)
Begin(txn) == IF txn = None THEN db ELSE txn

_flush_records(txn, batch) ==
    IF batch = <<>> THEN txn ELSE InsertPlain(Begin(txn), "records", batch)

_flush_activities(txn, batch) ==
    IF batch = <<>> THEN txn ELSE InsertOrReplace(Begin(txn), batch)

_flush_workouts(txn, batch) ==
    IF batch = <<>> THEN txn ELSE InsertPlain(Begin(txn), "workouts", batch)

AllIndexes == IndexesOf("records") \cup IndexesOf("activity_summaries") \cup IndexesOf("workouts")

\* CREATE INDEX IF NOT EXISTS in place of CREATE INDEX
CreateIndexesIfNotExists(store) ==
    IF \E t \in {"records", "activity_summaries", "workouts"} : ~store[t].present
    THEN Error("OperationalError")
    ELSE [store EXCEPT !.indexes = @ \cup AllIndexes]

\* the four CREATE INDEX statements
_create_indexes(store) ==
    IF \E t \in {"records", "activity_summaries", "workouts"} : ~store[t].present
    THEN Error("OperationalError")
    ELSE IF store.indexes \cap AllIndexes # {} THEN Error("OperationalError")
    ELSE [store EXCEPT !.indexes = @ \cup AllIndexes]

-----------------------------------------------------------------------------
(* The document: the parse events ET.iterparse hands to the loop, one per   *)
(* step.  An event is ("start" | "end", element) or the ParseError that     *)
(* iterparse raises where the document stops being well-formed.             *)

GLUCOSE == Str("HKQuantityTypeIdentifierBloodGlucose")
STEPS == Str("HKQuantityTypeIdentifierStepCount")
BODYMASS == Str("HKQuantityTypeIdentifierBodyMass")     \* not an allowed type

Elem(event, tag, attrib) == [event |-> event, tag |-> tag, attrib |-> attrib]

\* <Record type=.. value=.. startDate=.. endDate=.. unit=.. sourceName=../>
RecordEnd(type, value, t) ==
    Elem("end", "Record",
         [type |-> type, value |-> Str(value), startDate |-> Stamp(t, " -0700"),
          endDate |-> Stamp(t, " -0700"), unit |-> Str("u"), sourceName |-> Str("Watch")])

T0 == Instant(2, 23, InstantsPerHour - 1)     \* day 2, 23:59:59
T1 == Instant(0, 10, 0)     \* day 0, 10:00:00

RecSteps == RecordEnd(STEPS, "5", T0)
RecGlucose == RecordEnd(GLUCOSE, "100", T1)
RecBadType == RecordEnd(BODYMASS, "7", T0)
RecBadValue == RecordEnd(STEPS, "abc", T0)
RecNaN == RecordEnd(STEPS, "nan", T0)
RecNoValue ==
    Elem("end", "Record",
         [type |-> STEPS, startDate |-> Stamp(T0, " -0700"),
          endDate |-> Stamp(T0, " -0700"), unit |-> Str("u"), sourceName |-> Str("Watch")])
RecNoDate ==
    Elem("end", "Record",
         [type |-> STEPS, value |-> Str("7"), unit |-> Str("u"), sourceName |-> Str("Watch")])
RecBadDate ==
    Elem("end", "Record",
         [type |-> STEPS, value |-> Str("7"), startDate |-> Str("yesterday"),
          endDate |-> Str("yesterday"), unit |-> Str("u"), sourceName |-> Str("Watch")])

\* <ActivitySummary dateComponents=.. appleExerciseTime=.. .../>
ActivityEnd(d, exercise) ==
    Elem("end", "ActivitySummary",
         [dateComponents |-> DayStr(d), appleExerciseTime |-> Str(exercise),
          activeEnergyBurned |-> Str("100"), activeEnergyBurnedGoal |-> Str("140"),
          appleStandHours |-> Str("7"), appleStandHoursGoal |-> Str("")])

ActDay0 == ActivityEnd(0, "30")
ActDay0Again == ActivityEnd(0, "45")
ActDay2 == ActivityEnd(2, "45")
ActNoDate == Elem("end", "ActivitySummary", [appleExerciseTime |-> Str("30")])

\* <Workout workoutActivityType=.. duration=.. startDate=.. ...> ... </Workout>
WorkoutAttrib ==
    [workoutActivityType |-> Str("HKWorkoutActivityTypeCycling"), duration |-> Str("30"),
     sourceName |-> Str("Watch"), startDate |-> Stamp(T1, " -0700"),
     endDate |-> Stamp(T1, " -0700")]
WorkoutStart == Elem("start", "Workout", WorkoutAttrib)
WorkoutEnd == Elem("end", "Workout", WorkoutAttrib)

(* The type label of a statistic is text searched for a substring; it is    *)
(* held as the sequence of its words.                                       *)
StatEnd(words, sum, unit) ==
    Elem("end", "WorkoutStatistics", [type |-> words, sum |-> Str(sum), unit |-> Str(unit)])
StatDistance == StatEnd(<<"HKQuantityTypeIdentifier", "Distance", "Cycling">>, "7", "km")
StatEnergy == StatEnd(<<"HKQuantityTypeIdentifier", "Active", "EnergyBurned">>, "140", "kcal")
StatOther == StatEnd(<<"HKQuantityTypeIdentifier", "HeartRate">>, "100", "bpm")

Malformed == [event |-> "error", tag |-> "ParseError", attrib |-> [none |-> TRUE]]

\* "Distance" in stat_type
Contains(words, w) == \E k \in 1..Len(words) : words[k] = w

RECURSIVE Depth(_)
\* how many Workout elements the part of the document read so far leaves open
Depth(doc) ==
    IF doc = <<>> THEN 0
    ELSE LET e == doc[Len(doc)]
             rest == Depth(SubSeq(doc, 1, Len(doc) - 1))
         IN  IF e.tag = "Workout" /\ e.event = "start" THEN rest + 1
             ELSE IF e.tag = "Workout" /\ e.event = "end" THEN rest - 1
             ELSE rest

\* An end tag closes an open element; anything else is a ParseError.
WellFormedNext(doc, e) ==
    (e.tag = "Workout" /\ e.event = "end") => Depth(doc) > 0

-----------------------------------------------------------------------------
(* import_from_xml.  pc is the statement the run is at; doc is the part of  *)
(* the document consumed so far and before is the committed store when the  *)
(* run began (both are kept for stating properties only).                   *)

Importers == {1, 2}

ImpIdle ==
    [pc |-> "idle", stmt |-> 0, doc |-> <<>>, record_batch |-> <<>>, activity_batch |-> <<>>,
     workout_batch |-> <<>>, total_count |-> 0, workout_pending |-> None,
     txn |-> None, result |-> None, before |-> NoTables]

\* An exception leaves import_from_xml: the connection goes away without a
\* commit, which rolls its transaction back.
Raise(s, kind) == [s EXCEPT !.pc = "failed", !.txn = None, !.result = Error(kind)]

\* SQLite admits one writer: a statement that writes waits while another
\* connection's transaction is open.
LockedByOther(i) == \E j \in Importers \ {i} : imp[j].txn # None

AllowedAny(rec_type) == TRUE

\* rec_type in ALLOWED_RECORD_TYPES
Allowed(rec_type) == rec_type \in ALLOWED_RECORD_TYPES

\* the tuple appended to record_batch
RecordRow(attrib) ==
    [type |-> Get(attrib, "type", Str("")),
     source_name |-> Get(attrib, "sourceName", None),
     unit |-> Get(attrib, "unit", None),
     start_date |-> parse_date(Get(attrib, "startDate", None)),
     end_date |-> parse_date(Get(attrib, "endDate", None)),
     value |-> Float(Get(attrib, "value", None))]

\* len(record_batch) >= BATCH_SIZE
BatchFull(batch) == Len(batch) >= BATCH_SIZE

\* event == "end" and elem.tag == "Record"
OnRecordEnd(s, e) ==
    LET rec_type == Get(e.attrib, "type", Str(""))
        value == Get(e.attrib, "value", None)
        batch == IF Allowed(rec_type) /\ value # None /\ ~FloatRaises(value)
                 THEN Append(s.record_batch, RecordRow(e.attrib))
                 ELSE s.record_batch
        txn == _flush_records(s.txn, batch)
    IN  IF BatchFull(batch)
        THEN IF IsError(txn) THEN Raise([s EXCEPT !.record_batch = batch], txn.error)
             ELSE [s EXCEPT !.txn = txn, !.total_count = @ + Len(batch),
                            !.record_batch = <<>>]
        ELSE [s EXCEPT !.record_batch = batch]

\* the tuple appended to activity_batch
ActivityRow(attrib) ==
    [date |-> Get(attrib, "dateComponents", None),
     apple_exercise_time |-> _safe_float(Get(attrib, "appleExerciseTime", None)),
     active_energy_burned |-> _safe_float(Get(attrib, "activeEnergyBurned", None)),
     active_energy_burned_goal |-> _safe_float(Get(attrib, "activeEnergyBurnedGoal", None)),
     apple_stand_hours |-> _safe_int(Get(attrib, "appleStandHours", None)),
     apple_stand_hours_goal |-> _safe_int(Get(attrib, "appleStandHoursGoal", None))]

\* event == "end" and elem.tag == "ActivitySummary"
OnActivityEnd(s, e) ==
    IF Truthy(Get(e.attrib, "dateComponents", None))
    THEN [s EXCEPT !.activity_batch = Append(@, ActivityRow(e.attrib))]
    ELSE s

\* a Workout start that leaves a session that is open as it is
OnWorkoutStartKeepsOpen(s, e) ==
    IF s.workout_pending # None THEN s
    ELSE [s EXCEPT !.workout_pending =
            [activity_type |-> Get(e.attrib, "workoutActivityType", Str("")),
             duration |-> _safe_float(Get(e.attrib, "duration", None)),
             source_name |-> Get(e.attrib, "sourceName", None),
             start_date |-> parse_date(Get(e.attrib, "startDate", None)),
             end_date |-> parse_date(Get(e.attrib, "endDate", None)),
             total_distance |-> None,
             total_distance_unit |-> None,
             total_energy_burned |-> None,
             total_energy_burned_unit |-> None]]

\* event == "start" and elem.tag == "Workout"
OnWorkoutStart(s, e) ==
    [s EXCEPT !.workout_pending =
        [activity_type |-> Get(e.attrib, "workoutActivityType", Str("")),
         duration |-> _safe_float(Get(e.attrib, "duration", None)),
         source_name |-> Get(e.attrib, "sourceName", None),
         start_date |-> parse_date(Get(e.attrib, "startDate", None)),
         end_date |-> parse_date(Get(e.attrib, "endDate", None)),
         total_distance |-> None,
         total_distance_unit |-> None,
         total_energy_burned |-> None,
         total_energy_burned_unit |-> None]]

\* a statistic that is kept in place of the one kept before it
OnStatisticsEndLastOnly(s, e) ==
    LET stat_type == Get(e.attrib, "type", <<>>)
    IN  IF Contains(stat_type, "Distance")
        THEN [s EXCEPT !.workout_pending.total_distance = _safe_float(Get(e.attrib, "sum", None)),
                       !.workout_pending.total_distance_unit = Get(e.attrib, "unit", None),
                       !.workout_pending.total_energy_burned = None,
                       !.workout_pending.total_energy_burned_unit = None]
        ELSE IF Contains(stat_type, "EnergyBurned")
        THEN [s EXCEPT !.workout_pending.total_energy_burned = _safe_float(Get(e.attrib, "sum", None)),
                       !.workout_pending.total_energy_burned_unit = Get(e.attrib, "unit", None),
                       !.workout_pending.total_distance = None,
                       !.workout_pending.total_distance_unit = None]
        ELSE s

\* event == "end" and elem.tag == "WorkoutStatistics" and workout_pending
OnStatisticsEnd(s, e) ==
    LET stat_type == Get(e.attrib, "type", <<>>)
    IN  IF Contains(stat_type, "Distance")
        THEN [s EXCEPT !.workout_pending.total_distance = _safe_float(Get(e.attrib, "sum", None)),
                       !.workout_pending.total_distance_unit = Get(e.attrib, "unit", None)]
        ELSE IF Contains(stat_type, "EnergyBurned")
        THEN [s EXCEPT !.workout_pending.total_energy_burned = _safe_float(Get(e.attrib, "sum", None)),
                       !.workout_pending.total_energy_burned_unit = Get(e.attrib, "unit", None)]
        ELSE s

\* a Workout end that commits only a session for which a statistic was kept
OnWorkoutEndNeedsStats(s, e) ==
    IF s.workout_pending # None /\ (s.workout_pending.total_distance # None
                                     \/ s.workout_pending.total_energy_burned # None)
    THEN [s EXCEPT !.workout_batch = Append(@, s.workout_pending),
                   !.workout_pending = None]
    ELSE [s EXCEPT !.workout_pending = None]

\* event == "end" and elem.tag == "Workout"
OnWorkoutEnd(s, e) ==
    IF s.workout_pending # None
    THEN [s EXCEPT !.workout_batch = Append(@, s.workout_pending),
                   !.workout_pending = None]
    ELSE s

\* one turn of the loop "for event, elem in context"
Handle(s, e) ==
    IF e.event = "error" THEN Raise(s, "ParseError")
    ELSE IF e.event = "end" /\ e.tag = "Record" THEN OnRecordEnd(s, e)
    ELSE IF e.event = "end" /\ e.tag = "ActivitySummary" THEN OnActivityEnd(s, e)
    ELSE IF e.event = "start" /\ e.tag = "Workout" THEN OnWorkoutStart(s, e)
    ELSE IF e.event = "end" /\ e.tag = "WorkoutStatistics" /\ s.workout_pending # None
         THEN OnStatisticsEnd(s, e)
    ELSE IF e.event = "end" /\ e.tag = "Workout" THEN OnWorkoutEnd(s, e)
    ELSE s

\* the flushes after the loop with the one of the workouts left out
FlushRemainingNoWorkouts(s) ==
    LET t1 == _flush_records(s.txn, s.record_batch)
        t2 == _flush_activities(t1, s.activity_batch)
    IN  IF IsError(t1) THEN Raise(s, t1.error)
        ELSE IF IsError(t2) THEN Raise(s, t2.error)
        ELSE [s EXCEPT !.txn = t2, !.pc = "index",
                       !.total_count = @ + Len(s.record_batch) + Len(s.activity_batch)]

\* the three flushes after the loop, each followed by its total_count += len(batch)
FlushRemaining(s) ==
    LET t1 == _flush_records(s.txn, s.record_batch)
        t2 == _flush_activities(t1, s.activity_batch)
        t3 == _flush_workouts(t2, s.workout_batch)
    IN  IF IsError(t1) THEN Raise(s, t1.error)
        ELSE IF IsError(t2) THEN Raise(s, t2.error)
        ELSE IF IsError(t3) THEN Raise(s, t3.error)
        ELSE [s EXCEPT !.txn = t3, !.pc = "index",
                       !.total_count = @ + Len(s.record_batch) + Len(s.activity_batch)
                                         + Len(s.workout_batch)]

-----------------------------------------------------------------------------
(* The steps of one run of import_from_xml *)

\* the locals of a request; response is what it answers, saw_empty records
\* that one of its reads found the records table absent or without rows
RdIdle ==
    [pc |-> "idle", kind |-> "", range_param |-> "", start_date |-> 0, end_date |-> 0,
     series |-> <<>>, avg_glucose |-> None, total_steps_sum |-> None,
     latest_glucose |-> None, total_steps |-> None, response |-> None,
     saw_empty |-> FALSE]

Init ==
    /\ db = NoTables
    /\ imp = [i \in Importers |-> ImpIdle]
    /\ nimports = 0
    /\ rd = RdIdle
    /\ nrequests = 0

\* import_from_xml is called: sqlite3.connect, PRAGMA journal_mode=WAL
StartImport(i) ==
    /\ imp[i].pc \in {"idle", "done", "failed"}
    /\ nimports < MaxImports
    /\ nimports' = nimports + 1
    /\ imp' = [imp EXCEPT ![i] = [ImpIdle EXCEPT !.pc = "create_tables", !.stmt = 1, !.before = db]]
    /\ UNCHANGED <<db, rd, nrequests>>

\* _create_tables: its next statement.  No transaction is open, so each
\* statement commits by itself; the conn.commit() after the last one finds
\* nothing to commit.
CreateTablesStep(i) ==
    /\ imp[i].pc = "create_tables"
    /\ ~LockedByOther(i)
    /\ LET r == CreateTablesStmt(db, imp[i].stmt)
       IN  IF IsError(r)
           THEN /\ imp' = [imp EXCEPT ![i] = Raise(@, r.error)]
                /\ db' = db
           ELSE /\ db' = r
                /\ imp' = [imp EXCEPT ![i].stmt = IF @ < NStatements THEN @ + 1 ELSE 0,
                                      ![i].pc = IF imp[i].stmt < NStatements
                                                THEN "create_tables" ELSE "parse"]
    /\ UNCHANGED <<nimports, rd, nrequests>>

\* a loop body whose flush is followed by a commit
ParseEventFlushCommits(i, e) ==
    /\ imp[i].pc = "parse"
    /\ Len(imp[i].doc) < MaxEvents
    /\ WellFormedNext(imp[i].doc, e)
    /\ imp[i].txn # None \/ ~LockedByOther(i)
    /\ LET s == Handle([imp[i] EXCEPT !.doc = Append(@, e)], e)
       IN  /\ imp' = [imp EXCEPT ![i] = [s EXCEPT !.txn = None]]
           /\ db' = IF s.txn # None THEN s.txn ELSE db
    /\ UNCHANGED <<nimports, rd, nrequests>>

\* one event of the document goes through the loop body
ParseEvent(i, e) ==
    /\ imp[i].pc = "parse"
    /\ Len(imp[i].doc) < MaxEvents
    /\ WellFormedNext(imp[i].doc, e)
    /\ imp[i].txn # None \/ ~LockedByOther(i)
    /\ imp' = [imp EXCEPT ![i] = Handle([@ EXCEPT !.doc = Append(@, e)], e)]
    /\ UNCHANGED <<db, nimports, rd, nrequests>>

\* the document ends with every element closed: the remaining rows are flushed
EndOfStream(i) ==
    /\ imp[i].pc = "parse"
    /\ Depth(imp[i].doc) = 0
    /\ imp[i].txn # None \/ ~LockedByOther(i)
    /\ imp' = [imp EXCEPT ![i] = FlushRemaining(@)]
    /\ UNCHANGED <<db, nimports, rd, nrequests>>

\* _create_indexes(cur): inside the transaction when one is open, else each
\* CREATE INDEX commits by itself
CreateIndexes(i) ==
    /\ imp[i].pc = "index"
    /\ imp[i].txn # None \/ ~LockedByOther(i)
    /\ LET r == _create_indexes(Begin(imp[i].txn))
       IN  IF IsError(r)
           THEN /\ imp' = [imp EXCEPT ![i] = Raise(@, r.error)]
                /\ db' = db
           ELSE IF imp[i].txn = None
           THEN /\ db' = r
                /\ imp' = [imp EXCEPT ![i].pc = "commit"]
           ELSE /\ db' = db
                /\ imp' = [imp EXCEPT ![i].pc = "commit", ![i].txn = r]
    /\ UNCHANGED <<nimports, rd, nrequests>>

\* conn.close() with the conn.commit() before it left out
CommitLeftOut(i) ==
    /\ imp[i].pc = "commit"
    /\ db' = db
    /\ imp' = [imp EXCEPT ![i].pc = "done", ![i].txn = None,
                          ![i].result = Num(imp[i].total_count)]
    /\ UNCHANGED <<nimports, rd, nrequests>>

\* conn.commit(); conn.close(); return total_count
Commit(i) ==
    /\ imp[i].pc = "commit"
    /\ db' = IF imp[i].txn # None THEN imp[i].txn ELSE db
    /\ imp' = [imp EXCEPT ![i].pc = "done", ![i].txn = None,
                          ![i].result = Num(imp[i].total_count)]
    /\ UNCHANGED <<nimports, rd, nrequests>>

\* the documents of the importer's specification are made of these events
Events ==
    {RecSteps, RecGlucose, RecBadType, RecBadValue, RecNoValue, RecNaN, RecNoDate,
     RecBadDate, ActDay0, ActDay0Again, ActNoDate, WorkoutStart, StatDistance,
     WorkoutEnd, Malformed}

Next ==
    \/ StartImport(1)
    \/ CreateTablesStep(1)
    \/ \E e \in Events : ParseEvent(1, e)
    \/ EndOfStream(1)
    \/ CreateIndexes(1)
    \/ Commit(1)

Spec == Init /\ [][Next]_vars

-----------------------------------------------------------------------------
(* What a document should leave in the store, read off the document itself *)

Count(rows, r) == Cardinality({k \in DOMAIN rows : rows[k] = r})

\* the same rows, whatever their rowids
SameRows(a, b) ==
    /\ Len(a) = Len(b)
    /\ \A k \in DOMAIN a : Count(a, a[k]) = Count(b, a[k])

IsRecordEnd(e) == e.event = "end" /\ e.tag = "Record"
IsActivityEnd(e) == e.event = "end" /\ e.tag = "ActivitySummary"
IsWorkoutStart(e) == e.event = "start" /\ e.tag = "Workout"
IsWorkoutEnd(e) == e.event = "end" /\ e.tag = "Workout"
IsStatEnd(e) == e.event = "end" /\ e.tag = "WorkoutStatistics"

\* a measurement of an allowed type with a value that is a number
ValidRecord(e) ==
    /\ IsRecordEnd(e)
    /\ Get(e.attrib, "type", Str("")) \in ALLOWED_RECORD_TYPES
    /\ "value" \in DOMAIN e.attrib
    /\ e.attrib.value.str \in {"0", "5", "7", "30", "45", "100", "140"}

\* a measurement whose start date is missing or is no timestamp
DateDefect(e) == IsRecordEnd(e) /\ ~IsStamp(Get(e.attrib, "startDate", None))

RECURSIVE Pick(_, _)
\* the positions of a document, in order, that are in the set P
Pick(n, P) ==
    IF n = 0 THEN <<>>
    ELSE IF n \in P THEN Append(Pick(n - 1, P), n) ELSE Pick(n - 1, P)

DerivedRecords(doc) ==
    LET at == Pick(Len(doc), {k \in DOMAIN doc : ValidRecord(doc[k])})
    IN  [j \in DOMAIN at |-> RecordRow(doc[at[j]].attrib)]

\* a daily summary with a date, not followed by another one of the same date
LastOfItsDate(doc, k) ==
    /\ IsActivityEnd(doc[k])
    /\ "dateComponents" \in DOMAIN doc[k].attrib
    /\ \A m \in DOMAIN doc :
         (m > k /\ IsActivityEnd(doc[m]) /\ "dateComponents" \in DOMAIN doc[m].attrib)
            => doc[m].attrib.dateComponents # doc[k].attrib.dateComponents

DerivedActivities(doc) ==
    LET at == Pick(Len(doc), {k \in DOMAIN doc : LastOfItsDate(doc, k)})
    IN  [j \in DOMAIN at |-> ActivityRow(doc[at[j]].attrib)]

\* the Workout start whose builder a Workout end at k finds open: the last
\* Workout event before k, if it is a start
OpenerOf(doc, k) ==
    LET before == {j \in 1..(k - 1) : doc[j].tag = "Workout"}
        last == CHOOSE j \in before : \A m \in before : m <= j
    IN  IF before # {} /\ IsWorkoutStart(doc[last]) THEN last ELSE 0

\* the last statistic of a kind between positions j and k, or 0
LastStat(doc, j, k, kind) ==
    LET of == {m \in (j + 1)..(k - 1) :
                 /\ IsStatEnd(doc[m])
                 /\ IF kind = "Distance"
                    THEN Contains(doc[m].attrib.type, "Distance")
                    ELSE /\ ~Contains(doc[m].attrib.type, "Distance")
                         /\ Contains(doc[m].attrib.type, "EnergyBurned")}
    IN  IF of = {} THEN 0 ELSE CHOOSE m \in of : \A n \in of : n <= m

DerivedWorkout(doc, k) ==
    LET j == OpenerOf(doc, k)
        d == LastStat(doc, j, k, "Distance")
        g == LastStat(doc, j, k, "EnergyBurned")
        a == doc[j].attrib
    IN  [activity_type |-> a.workoutActivityType,
         duration |-> Float(a.duration),
         source_name |-> a.sourceName,
         start_date |-> Stamp(a.startDate.stamp, ""),
         end_date |-> Stamp(a.endDate.stamp, ""),
         total_distance |-> IF d = 0 THEN None ELSE Float(doc[d].attrib.sum),
         total_distance_unit |-> IF d = 0 THEN None ELSE doc[d].attrib.unit,
         total_energy_burned |-> IF g = 0 THEN None ELSE Float(doc[g].attrib.sum),
         total_energy_burned_unit |-> IF g = 0 THEN None ELSE doc[g].attrib.unit]

DerivedWorkouts(doc) ==
    LET at == Pick(Len(doc), {k \in DOMAIN doc : IsWorkoutEnd(doc[k]) /\ OpenerOf(doc, k) # 0})
    IN  [j \in DOMAIN at |-> DerivedWorkout(doc, at[j])]

Derived(doc) ==
    [records |-> DerivedRecords(doc), activity_summaries |-> DerivedActivities(doc),
     workouts |-> DerivedWorkouts(doc)]

Tables == {"records", "activity_summaries", "workouts"}

Has(doc, e) == \E k \in DOMAIN doc : doc[k] = e

-----------------------------------------------------------------------------
(* Claims about the importer, under Spec *)

\* C1: when import_from_xml fails mid-parse (ParseError), every table still
\* exists if it existed before and holds either all the rows it held before
\* the import began or the complete rows of the new document.
C1_FailedImportLeavesTablesWhole ==
    (imp[1].pc = "failed" /\ imp[1].result = Error("ParseError")) =>
        \A t \in Tables :
            \/ /\ imp[1].before[t].present => db[t].present
               /\ SameRows(db[t].rows, imp[1].before[t].rows)
            \/ /\ db[t].present
               /\ SameRows(db[t].rows, Derived(imp[1].doc)[t])

\* C5: in every state, every row of the records table has one of the seven
\* allowed types and a value that is a number; after a completed import the
\* table has as many rows as the document has valid measurements, so an
\* element of another type has produced none.
C5_OnlyAllowedNumericRows ==
    /\ \A k \in DOMAIN db.records.rows :
         /\ db.records.rows[k].type \in ALLOWED_RECORD_TYPES
         /\ IsNum(db.records.rows[k].value)
    /\ imp[1].pc = "done" =>
         Len(db.records.rows) =
            Cardinality({k \in DOMAIN imp[1].doc : ValidRecord(imp[1].doc[k])})

\* C5 witness: an import has completed on a document holding a measurement of
\* a type outside the allowed set next to an allowed one, and only the
\* allowed one is stored.
C5_Witness ==
    /\ imp[1].pc = "done"
    /\ Has(imp[1].doc, RecBadType)
    /\ Has(imp[1].doc, RecSteps)
    /\ db.records.rows = <<RecordRow(RecSteps.attrib)>>

\* C6: a measurement of an allowed type whose start date is missing or is no
\* timestamp never makes the import fail, is never stored, and leaves every
\* other valid measurement of the document imported.
C6_DateDefectDropsOnlyItsRow ==
    LET doc == imp[1].doc
        good == {k \in DOMAIN doc : ValidRecord(doc[k]) /\ ~DateDefect(doc[k])}
    IN  (/\ \E k \in DOMAIN doc : ValidRecord(doc[k]) /\ DateDefect(doc[k])
         /\ ~Has(doc, Malformed)
         /\ ~Has(doc, RecNaN))
        => /\ imp[1].pc # "failed"
           /\ imp[1].pc = "done" =>
                /\ Len(db.records.rows) = Cardinality(good)
                /\ \A k \in DOMAIN db.records.rows : IsStamp(db.records.rows[k].start_date)

\* C7: when an import has completed, the total it returns is the number of
\* rows of the three tables together.
C7_TotalIsRowCount ==
    imp[1].pc = "done" =>
        imp[1].result =
            Num(Len(db.records.rows) + Len(db.activity_summaries.rows) + Len(db.workouts.rows))

\* C8: at every point of the parse, each of the three batches holds at most
\* BATCH_SIZE rows.
C8_BatchesBounded ==
    imp[1].pc = "parse" =>
        /\ Len(imp[1].record_batch) <= BATCH_SIZE
        /\ Len(imp[1].activity_batch) <= BATCH_SIZE
        /\ Len(imp[1].workout_batch) <= BATCH_SIZE

\* C10: whenever an import has completed, the three tables hold exactly the
\* rows of the document it read: no row of an earlier import is left.
C10_ReplaceAll ==
    imp[1].pc = "done" =>
        \A t \in Tables :
            /\ db[t].present
            /\ SameRows(db[t].rows, Derived(imp[1].doc)[t])

\* C10 witness: a second import has completed over a store that held a step
\* measurement, and the store now holds the glucose measurement of the
\* second document alone.
C10_Witness ==
    /\ nimports = 2
    /\ imp[1].pc = "done"
    /\ imp[1].before.records.rows = <<RecordRow(RecSteps.attrib)>>
    /\ db.records.rows = <<RecordRow(RecGlucose.attrib)>>

-----------------------------------------------------------------------------
(* Floats of the read path: a float is NaN or a fraction num/den in lowest  *)
(* terms.                                                                   *)

RECURSIVE GCD(_, _)
GCD(a, b) == IF b = 0 THEN a ELSE GCD(b, a % b)

Q(n, d) == LET g == GCD(n, d) IN [num |-> n \div g, den |-> d \div g]
QAdd(a, b) == Q(a.num * b.den + b.num * a.den, a.den * b.den)
QDiv(a, k) == Q(a.num, a.den * k)
isna(v) == v = NaN \/ v = None

\* round(v, digits), scale = 10^digits: to the nearest, a tie to the even one
RoundQ(v, scale) ==
    LET x == v.num * scale
        f == x \div v.den
        r == x % v.den
        up == IF 2 * r > v.den THEN 1 ELSE IF 2 * r < v.den THEN 0 ELSE f % 2
    IN  Q(f + up, scale)

RECURSIVE SumSeq(_)
\* the sum of the floats of a sequence that are not NaN
SumSeq(vals) ==
    IF vals = <<>> THEN Num(0)
    ELSE IF isna(Head(vals)) THEN SumSeq(Tail(vals))
    ELSE QAdd(Head(vals), SumSeq(Tail(vals)))

RECURSIVE CountSeq(_)
\* how many floats of a sequence are not NaN
CountSeq(vals) ==
    IF vals = <<>> THEN 0
    ELSE (IF isna(Head(vals)) THEN 0 ELSE 1) + CountSeq(Tail(vals))

SumNoMinCount(vals) == SumSeq(vals)

\* .sum(min_count=1): NaN when the group has no value
SumMinCount1(vals) == IF CountSeq(vals) >= 1 THEN SumSeq(vals) ELSE NaN

\* the sum in place of the mean
MeanNotDivided(vals) == IF CountSeq(vals) >= 1 THEN SumSeq(vals) ELSE NaN

\* .mean(): NaN when the group has no value
Mean(vals) == IF CountSeq(vals) >= 1 THEN QDiv(SumSeq(vals), CountSeq(vals)) ELSE NaN

(* pandas.  A Series is its DatetimeIndex (instants) and its values. *)

FreqStep(freq) == IF freq = "h" THEN InstantsPerHour ELSE InstantsPerDay
Floor(t, freq) == t - (t % FreqStep(freq))

\* pd.date_range(start=start, end=end, freq=freq)
date_range(start, end, freq) ==
    IF end < start THEN <<>>
    ELSE [k \in 1..((end - start) \div FreqStep(freq) + 1) |-> start + (k - 1) * FreqStep(freq)]

Series(index, values) == [index |-> index, values |-> values]

\* pd.Series(dtype=float, index=idx): every value NaN
EmptySeries(idx) == Series(idx, [k \in DOMAIN idx |-> NaN])

RECURSIVE Where(_, _, _)
\* the values of the rows of a frame whose time falls in the bucket of label
Where(df, label, freq) ==
    IF df = <<>> THEN <<>>
    ELSE IF Floor(Head(df).t, freq) = label
         THEN <<Head(df).v>> \o Where(Tail(df), label, freq)
         ELSE Where(Tail(df), label, freq)

RECURSIVE MinT(_)
MinT(df) ==
    IF Len(df) = 1 THEN df[1].t
    ELSE LET m == MinT(Tail(df)) IN IF df[1].t < m THEN df[1].t ELSE m

RECURSIVE MaxT(_)
MaxT(df) ==
    IF Len(df) = 1 THEN df[1].t
    ELSE LET m == MaxT(Tail(df)) IN IF df[1].t > m THEN df[1].t ELSE m

\* df[col].resample(freq).sum(min_count=1) / .mean() on a frame with rows:
\* one bucket for every period from the first row's to the last row's
Resample(df, freq, agg) ==
    LET idx == date_range(Floor(MinT(df), freq), Floor(MaxT(df), freq), freq)
    IN  Series(idx, [k \in DOMAIN idx |->
                        IF agg = "sum" THEN SumMinCount1(Where(df, idx[k], freq))
                        ELSE Mean(Where(df, idx[k], freq))])

\* a rolling mean that waits for a full window
RollingFullWindow(s, window) ==
    Series(s.index,
           [k \in DOMAIN s.values |->
               IF k < window THEN NaN ELSE Mean(SubSeq(s.values, k - window + 1, k))])

\* s.rolling(window, min_periods=1).mean(): the mean of the values of the
\* last `window` positions that are not NaN, when there is at least one
Rolling(s, window) ==
    Series(s.index,
           [k \in DOMAIN s.values |->
               Mean(SubSeq(s.values, IF k > window THEN k - window + 1 ELSE 1, k))])

\* the position of a label in a Series of regular index, or 0
PositionOf(s, freq, label) ==
    IF s.index = <<>> \/ label < s.index[1] THEN 0
    ELSE LET k == (label - s.index[1]) \div FreqStep(freq) + 1
         IN  IF k <= Len(s.index) /\ s.index[k] = label THEN k ELSE 0

\* daily.resample("h").ffill(): hourly labels from the first label of the
\* daily series to its last label; each takes the value of the latest daily
\* label not after it (a NaN included)
UpsampleFfill(daily) ==
    LET idx == date_range(daily.index[1], daily.index[Len(daily.index)], "h")
    IN  Series(idx, [k \in DOMAIN idx |->
                        daily.values[PositionOf(daily, "D", Floor(idx[k], "D"))]])

\* series.reindex(common_idx): the value at each label of common_idx, NaN
\* where the series has no such label
Reindex(s, freq, common_idx) ==
    Series(common_idx,
           [k \in DOMAIN common_idx |->
               LET j == PositionOf(s, freq, common_idx[k])
               IN  IF j = 0 THEN NaN ELSE s.values[j]])

\* the values of a series on its own index, without the reindex
SeriesOnOwnIndex(s, freq, common_idx) ==
    [k \in DOMAIN s.values |->
        IF isna(s.values[k]) THEN None ELSE RoundQ(s.values[k], 100)]

\* series_to_list
series_to_list(s, freq, common_idx) ==
    LET aligned == Reindex(s, freq, common_idx)
    IN  [k \in DOMAIN common_idx |->
            IF isna(aligned.values[k]) THEN None ELSE RoundQ(aligned.values[k], 100)]

-----------------------------------------------------------------------------
(* The read path of src/app.py *)

HEARTRATE == Str("HKQuantityTypeIdentifierHeartRate")
ACTIVE_ENERGY == Str("HKQuantityTypeIdentifierActiveEnergyBurned")
BASAL_ENERGY == Str("HKQuantityTypeIdentifierBasalEnergyBurned")
WALK_RUN == Str("HKQuantityTypeIdentifierDistanceWalkingRunning")
CYCLING == Str("HKQuantityTypeIdentifierDistanceCycling")

\* delta in hours
RANGE_CONFIG ==
    [r \in {"24h", "7d", "14d", "30d", "3mo", "6mo"} |->
        CASE r = "24h" -> [delta |-> 24, freq |-> "h", smoothing |-> 1]
          [] r = "7d" -> [delta |-> 7 * HoursPerDay, freq |-> "h", smoothing |-> 3]
          [] r = "14d" -> [delta |-> 14 * HoursPerDay, freq |-> "D", smoothing |-> 1]
          [] r = "30d" -> [delta |-> 30 * HoursPerDay, freq |-> "D", smoothing |-> 3]
          [] r = "3mo" -> [delta |-> 90 * HoursPerDay, freq |-> "D", smoothing |-> 7]
          [] r = "6mo" -> [delta |-> 180 * HoursPerDay, freq |-> "D", smoothing |-> 14]]

\* RANGE_CONFIG.get(range_param, RANGE_CONFIG["7d"])
Config(range_param) ==
    IF range_param \in DOMAIN RANGE_CONFIG THEN RANGE_CONFIG[range_param]
    ELSE RANGE_CONFIG["7d"]

\* datetime.now(): the wall clock of the requests of the model
Now == Instant(3, 12, InstantsPerHour - 1)

(* SQLite compares the texts of start_date and date byte by byte.  A text   *)
(* that is no timestamp begins with a letter in the model, and a letter is  *)
(* greater than every digit.                                                *)
TextGE(stored, t) == IF IsStamp(stored) THEN stored.stamp >= t ELSE TRUE
TextLE(stored, t) == IF IsStamp(stored) THEN stored.stamp <= t ELSE FALSE
DateGE(stored, d) == IF IsDayStr(stored) THEN stored.day >= d ELSE TRUE
DateLE(stored, d) == IF IsDayStr(stored) THEN stored.day <= d ELSE FALSE

RECURSIVE MaxText(_)
\* MAX(start_date) over rows
MaxText(rows) ==
    IF Len(rows) = 1 THEN rows[1].start_date
    ELSE LET m == MaxText(Tail(rows))
             h == rows[1].start_date
         IN  IF ~IsStamp(m) THEN m
             ELSE IF ~IsStamp(h) THEN h
             ELSE IF h.stamp > m.stamp THEN h ELSE m

\* dt.replace(minute=0, second=0, microsecond=0)
TruncateToHour(t) == Floor(t, "h")

Datetime(t) == [dt |-> t]

get_latest_data_date(store) ==
    IF ~store.records.present THEN Error("OperationalError")
    ELSE IF store.records.rows # <<>> /\ Truthy(MaxText(store.records.rows))
    THEN IF IsStamp(MaxText(store.records.rows))
         THEN Datetime(TruncateToHour(MaxText(store.records.rows).stamp))
         ELSE Error("ValueError")           \* strptime on a text that is no timestamp
    ELSE Datetime(TruncateToHour(Now))

db_has_data(store) == store.records.present /\ Len(store.records.rows) > 0

\* the query without its condition on the type
RecordFrameAnyType(store, data_type, start_date, end_date) ==
    LET Sel(r) == TextGE(r.start_date, start_date) /\ TextLE(r.start_date, end_date)
        rows == SelectSeq(store.records.rows, Sel)
    IN  [k \in DOMAIN rows |-> [t |-> rows[k].start_date.stamp, v |-> rows[k].value]]

\* the query with a strict upper end
RecordFrameBeforeEnd(store, data_type, start_date, end_date) ==
    LET Sel(r) == r.type = data_type /\ TextGE(r.start_date, start_date)
                                     /\ TextLE(r.start_date, end_date)
                                     /\ r.start_date # Stamp(end_date, "")
        rows == SelectSeq(store.records.rows, Sel)
    IN  [k \in DOMAIN rows |-> [t |-> rows[k].start_date.stamp, v |-> rows[k].value]]

\* the rows of the query of fetch_and_resample, start_date and value
RecordFrame(store, data_type, start_date, end_date) ==
    LET Sel(r) == r.type = data_type /\ TextGE(r.start_date, start_date)
                                     /\ TextLE(r.start_date, end_date)
        rows == SelectSeq(store.records.rows, Sel)
    IN  [k \in DOMAIN rows |-> [t |-> rows[k].start_date.stamp, v |-> rows[k].value]]

fetch_and_resample(store, data_type, start_date, end_date, freq, agg, smoothing) ==
    IF ~store.records.present THEN Error("DatabaseError")
    ELSE LET df == RecordFrame(store, data_type, start_date, end_date)
         IN  IF df = <<>> THEN EmptySeries(date_range(start_date, end_date, freq))
             ELSE IF smoothing > 1 THEN Rolling(Resample(df, freq, agg), smoothing)
             ELSE Resample(df, freq, agg)

\* the rows of the query of fetch_exercise_minutes; no rows when the table
\* is absent
ActivityFrame(store, start_date, end_date) ==
    LET Sel(r) == DateGE(r.date, DayOf(start_date)) /\ DateLE(r.date, DayOf(end_date))
        rows == IF store.activity_summaries.present
                THEN SelectSeq(store.activity_summaries.rows, Sel) ELSE <<>>
    IN  [k \in DOMAIN rows |-> [t |-> DayStart(rows[k].date.day),
                                v |-> rows[k].apple_exercise_time]]

fetch_exercise_minutes(store, start_date, end_date, freq) ==
    LET df == ActivityFrame(store, start_date, end_date)
    IN  IF df = <<>> THEN EmptySeries(date_range(start_date, end_date, freq))
        ELSE IF freq = "h" THEN UpsampleFfill(Resample(df, "D", "sum"))
        ELSE Resample(df, freq, "sum")

\* `x if row and row[0] else None`: NULL and 0 both give None
OrNone(v) == IF isna(v) \/ v = Num(0) THEN None ELSE v

\* `int(row[0]) if row and row[0] else None`: int() drops the fraction
IntOrNone(v) == IF OrNone(v) = None THEN None ELSE Num(v.num \div v.den)

\* SELECT AVG(value) ... ; round(row[0], 1)
AvgGlucose(store, ds, de) ==
    LET df == RecordFrame(store, GLUCOSE, ds, de)
        v == OrNone(Mean([k \in DOMAIN df |-> df[k].v]))
    IN  IF v = None THEN None ELSE RoundQ(v, 10)

\* SELECT SUM(value) ...
StepsSum(store, ds, de) ==
    LET df == RecordFrame(store, STEPS, ds, de)
    IN  OrNone(SumMinCount1([k \in DOMAIN df |-> df[k].v]))

\* max(1, config["delta"].days)
NumDays(config) == IF config.delta \div HoursPerDay >= 1 THEN config.delta \div HoursPerDay ELSE 1

\* round(total_steps_sum / num_days)
AvgDailySteps(total_steps_sum, config) ==
    IF total_steps_sum = None THEN None
    ELSE RoundQ(QDiv(total_steps_sum, NumDays(config)), 1)

\* SELECT AVG(apple_exercise_time) ... ; None when the query raises
AvgExercise(store, start_date, end_date) ==
    LET df == ActivityFrame(store, start_date, end_date)
        v == OrNone(Mean([k \in DOMAIN df |-> df[k].v]))
    IN  IF v = None THEN None ELSE RoundQ(v, 10)

\* the fetches of api_data, in their order
METRICS ==
    << [key |-> "glucose", type |-> GLUCOSE, agg |-> "mean"],
       [key |-> "steps", type |-> STEPS, agg |-> "sum"],
       [key |-> "heart_rate", type |-> HEARTRATE, agg |-> "mean"],
       [key |-> "active_calories", type |-> ACTIVE_ENERGY, agg |-> "sum"],
       [key |-> "resting_energy", type |-> BASAL_ENERGY, agg |-> "sum"],
       [key |-> "walking_running_distance", type |-> WALK_RUN, agg |-> "sum"],
       [key |-> "cycling_distance", type |-> CYCLING, agg |-> "sum"] >>

\* common_idx.strftime(fmt): "%Y-%m-%d %H:%M" keeps day, hour and minute,
\* "%Y-%m-%d" the day
Label(t, freq) ==
    IF freq = "h"
    THEN [day |-> DayOf(t), hour |-> HourOf(t) % HoursPerDay,
          minute |-> IF t % InstantsPerHour = 0 THEN 0 ELSE 59]
    ELSE [day |-> DayOf(t)]

\* the response of api_data when db_has_data() is false
EmptyData ==
    [labels |-> <<>>, glucose |-> <<>>, steps |-> <<>>, heart_rate |-> <<>>,
     active_calories |-> <<>>, resting_energy |-> <<>>,
     walking_running_distance |-> <<>>, cycling_distance |-> <<>>,
     exercise_minutes |-> <<>>, avg_glucose |-> None, avg_daily_steps |-> None,
     avg_exercise_minutes |-> None, range |-> "7d", freq |-> "h"]

\* the response of api_snapshot when db_has_data() is false
EmptySnapshot ==
    [latest_glucose |-> None, total_steps |-> None, exercise_minutes |-> None,
     as_of |-> None]

-----------------------------------------------------------------------------
(* The steps of one request: each read of the store is a step of its own,   *)
(* on a connection that holds no transaction between two reads.             *)

Ranges == {"24h", "7d", "14d", "30d", "3mo", "6mo", "1y"}

NoRows(store) == ~store.records.present \/ store.records.rows = <<>>

\* the request ends with a response; the window it used stays on record
Respond(r, response) ==
    [RdIdle EXCEPT !.pc = "done", !.kind = r.kind, !.range_param = r.range_param,
                   !.start_date = r.start_date, !.end_date = r.end_date,
                   !.response = response, !.saw_empty = r.saw_empty]

\* an exception leaves the view function: Flask answers 500
Fail(r, kind) == Respond(r, Error(kind))

\* GET /api/data?range=<range_param> or GET /api/snapshot arrives
StartRequest(kind, range_param) ==
    /\ rd.pc \in {"idle", "done"}
    /\ nrequests < MaxRequests
    /\ nrequests' = nrequests + 1
    /\ rd' = [RdIdle EXCEPT !.pc = "db_has_data", !.kind = kind,
                            !.range_param = range_param]
    /\ UNCHANGED <<db, imp, nimports>>

\* if not db_has_data(): return the empty response
DbHasData ==
    /\ rd.pc = "db_has_data"
    /\ rd' = IF db_has_data(db) THEN [rd EXCEPT !.pc = "latest"]
             ELSE Respond([rd EXCEPT !.saw_empty = TRUE],
                          IF rd.kind = "data" THEN EmptyData ELSE EmptySnapshot)
    /\ UNCHANGED <<db, imp, nimports, nrequests>>

\* end_date = get_latest_data_date(), then the window of the range
GetLatestDataDate ==
    /\ rd.pc = "latest"
    /\ LET latest == get_latest_data_date(db)
           config == Config(rd.range_param)
           start == latest.dt - config.delta * InstantsPerHour
           r == [rd EXCEPT !.saw_empty = @ \/ NoRows(db)]
       IN  rd' = IF IsError(latest) THEN Fail(r, latest.error)
                 ELSE IF rd.kind = "snapshot"
                 THEN [r EXCEPT !.pc = "latest_glucose", !.end_date = latest.dt]
                 ELSE IF config.freq = "D"
                 THEN [r EXCEPT !.pc = "fetch",
                                !.start_date = Floor(start, "D"),
                                !.end_date = Floor(latest.dt, "D") + InstantsPerDay - 1]
                 ELSE [r EXCEPT !.pc = "fetch", !.start_date = start, !.end_date = latest.dt]
    /\ UNCHANGED <<db, imp, nimports, nrequests>>

\* the next of the seven calls of fetch_and_resample
FetchAndResample ==
    /\ rd.pc = "fetch"
    /\ LET m == METRICS[Len(rd.series) + 1]
           config == Config(rd.range_param)
           s == fetch_and_resample(db, m.type, rd.start_date, rd.end_date, config.freq,
                                   m.agg, config.smoothing)
           r == [rd EXCEPT !.saw_empty = @ \/ NoRows(db)]
       IN  rd' = IF IsError(s) THEN Fail(r, s.error)
                 ELSE [r EXCEPT !.series = Append(@, s),
                                !.pc = IF Len(rd.series) + 1 = Len(METRICS)
                                       THEN "exercise" ELSE "fetch"]
    /\ UNCHANGED <<db, imp, nimports, nrequests>>

\* the query of fetch_exercise_minutes without its except clause
FetchExerciseMinutesNoExcept ==
    /\ rd.pc = "exercise"
    /\ rd' = IF ~db.activity_summaries.present THEN Fail(rd, "DatabaseError")
             ELSE [rd EXCEPT !.pc = "avg_glucose",
                             !.series = Append(@, fetch_exercise_minutes(
                                db, rd.start_date, rd.end_date, Config(rd.range_param).freq))]
    /\ UNCHANGED <<db, imp, nimports, nrequests>>

\* exercise_min = fetch_exercise_minutes(start_date, end_date, freq)
FetchExerciseMinutes ==
    /\ rd.pc = "exercise"
    /\ rd' = [rd EXCEPT !.pc = "avg_glucose",
                        !.series = Append(@, fetch_exercise_minutes(
                                db, rd.start_date, rd.end_date, Config(rd.range_param).freq))]
    /\ UNCHANGED <<db, imp, nimports, nrequests>>

\* SELECT AVG(value) FROM records ...
ReadAvgGlucose ==
    /\ rd.pc = "avg_glucose"
    /\ LET r == [rd EXCEPT !.saw_empty = @ \/ NoRows(db)]
       IN  rd' = IF ~db.records.present THEN Fail(r, "OperationalError")
                 ELSE [r EXCEPT !.pc = "steps_sum",
                                !.avg_glucose = AvgGlucose(db, rd.start_date, rd.end_date)]
    /\ UNCHANGED <<db, imp, nimports, nrequests>>

\* SELECT SUM(value) FROM records ...
ReadStepsSum ==
    /\ rd.pc = "steps_sum"
    /\ LET r == [rd EXCEPT !.saw_empty = @ \/ NoRows(db)]
       IN  rd' = IF ~db.records.present THEN Fail(r, "OperationalError")
                 ELSE [r EXCEPT !.pc = "avg_exercise",
                                !.total_steps_sum = StepsSum(db, rd.start_date, rd.end_date)]
    /\ UNCHANGED <<db, imp, nimports, nrequests>>

\* the JSON of api_data
DataResponse(r, avg_exercise) ==
    LET config == Config(r.range_param)
        common_idx == date_range(r.start_date, r.end_date, config.freq)
        List(k) == series_to_list(r.series[k], config.freq, common_idx)
    IN  [labels |-> [k \in DOMAIN common_idx |-> Label(common_idx[k], config.freq)],
         glucose |-> List(1), steps |-> List(2), heart_rate |-> List(3),
         active_calories |-> List(4), resting_energy |-> List(5),
         walking_running_distance |-> List(6), cycling_distance |-> List(7),
         exercise_minutes |-> List(8),
         avg_glucose |-> r.avg_glucose,
         avg_daily_steps |-> AvgDailySteps(r.total_steps_sum, config),
         avg_exercise_minutes |-> avg_exercise,
         range |-> r.range_param, freq |-> config.freq]

\* SELECT AVG(apple_exercise_time) FROM activity_summaries ..., then the
\* response is built
ReadAvgExercise ==
    /\ rd.pc = "avg_exercise"
    /\ rd' = Respond(rd, DataResponse(rd, AvgExercise(db, rd.start_date, rd.end_date)))
    /\ UNCHANGED <<db, imp, nimports, nrequests>>

\* SELECT value FROM records WHERE type = glucose ORDER BY start_date DESC
\* LIMIT 1; round(row[0])
ReadLatestGlucose ==
    /\ rd.pc = "latest_glucose"
    /\ LET r == [rd EXCEPT !.saw_empty = @ \/ NoRows(db)]
           Sel(x) == x.type = GLUCOSE
           rows == SelectSeq(db.records.rows, Sel)
       IN  IF ~db.records.present THEN rd' = Fail(r, "OperationalError")
           ELSE IF rows = <<>> THEN rd' = [r EXCEPT !.pc = "total_steps"]
           ELSE \E k \in DOMAIN rows :
                   /\ rows[k].start_date = MaxText(rows)
                   /\ rd' = [r EXCEPT !.pc = "total_steps",
                                      !.latest_glucose = RoundQ(rows[k].value, 1)]
    /\ UNCHANGED <<db, imp, nimports, nrequests>>

\* SELECT SUM(value) FROM records WHERE type = steps AND start_date >= day_start
ReadTotalSteps ==
    /\ rd.pc = "total_steps"
    /\ LET r == [rd EXCEPT !.saw_empty = @ \/ NoRows(db)]
           Sel(x) == /\ x.type = STEPS
                     /\ IF IsStamp(x.start_date)
                        THEN DayOf(x.start_date.stamp) >= DayOf(rd.end_date) ELSE TRUE
           rows == SelectSeq(db.records.rows, Sel)
       IN  rd' = IF ~db.records.present THEN Fail(r, "OperationalError")
                 ELSE [r EXCEPT !.pc = "exercise_today",
                                !.total_steps =
                                    IntOrNone(SumMinCount1([k \in DOMAIN rows |-> rows[k].value]))]
    /\ UNCHANGED <<db, imp, nimports, nrequests>>

\* SELECT apple_exercise_time FROM activity_summaries WHERE date = day_start;
\* None when the query raises; then the response is built
ReadExerciseToday ==
    /\ rd.pc = "exercise_today"
    /\ LET Sel(x) == x.date = DayStr(DayOf(rd.end_date))
           rows == IF db.activity_summaries.present
                   THEN SelectSeq(db.activity_summaries.rows, Sel) ELSE <<>>
       IN  rd' = Respond(rd,
                    [latest_glucose |-> rd.latest_glucose,
                     total_steps |-> rd.total_steps,
                     exercise_minutes |->
                        IF rows = <<>> THEN None ELSE IntOrNone(rows[1].apple_exercise_time),
                     as_of |-> DayStr(DayOf(rd.end_date))])
    /\ UNCHANGED <<db, imp, nimports, nrequests>>

\* the reads of a request that was started
Serve ==
    \/ DbHasData
    \/ GetLatestDataDate
    \/ FetchAndResample
    \/ FetchExerciseMinutes
    \/ ReadAvgGlucose
    \/ ReadStepsSum
    \/ ReadAvgExercise
    \/ ReadLatestGlucose
    \/ ReadTotalSteps
    \/ ReadExerciseToday

Request ==
    \/ \E range_param \in Ranges : StartRequest("data", range_param)
    \/ StartRequest("snapshot", "")
    \/ Serve

-----------------------------------------------------------------------------
(* The read path on a store at rest: the store holds what an import of a    *)
(* document of these elements leaves, and requests are served from it.      *)

MaxRows == 3        \* rows of the records table

RecordCandidates ==
    { RecordEnd(GLUCOSE, "100", Instant(2, 8, 0)),
      RecordEnd(GLUCOSE, "140", Instant(2, 10, 0)),
      RecordEnd(GLUCOSE, "100", Instant(2, 10, InstantsPerHour - 1)),
      RecordEnd(GLUCOSE, "100", Instant(0, 10, 0)),
      RecordEnd(STEPS, "0", Instant(2, 8, 0)),
      RecordEnd(STEPS, "5", Instant(2, 10, 0)),
      RecordEnd(STEPS, "7", Instant(1, 10, 0)),
      RecordEnd(STEPS, "5", Instant(2, 23, InstantsPerHour - 1)) }

ActivityCandidates == { ActDay0, ActivityEnd(1, ""), ActDay2 }

RECURSIVE SeqOf(_)
\* the elements of a set, one after the other
SeqOf(S) == IF S = {} THEN <<>> ELSE LET x == CHOOSE y \in S : TRUE IN <<x>> \o SeqOf(S \ {x})

\* the store after a successful import of a document of the elements R and A
StoreOf(R, A) ==
    LET rs == SeqOf(R)
        as == SeqOf(A)
    IN  [records |-> [present |-> TRUE, rows |-> [k \in DOMAIN rs |-> RecordRow(rs[k].attrib)]],
         activity_summaries |->
            [present |-> TRUE, rows |-> [k \in DOMAIN as |-> ActivityRow(as[k].attrib)]],
         workouts |-> EmptyTable,
         indexes |-> AllIndexes]

AggStores ==
    { StoreOf(R, A) : R \in {X \in SUBSET RecordCandidates : Cardinality(X) <= MaxRows},
                      A \in SUBSET ActivityCandidates }

InitAgg ==
    /\ db \in AggStores
    /\ imp = [i \in Importers |-> ImpIdle]
    /\ nimports = 0
    /\ rd = RdIdle
    /\ nrequests = 0

SpecAgg == InitAgg /\ [][Request]_vars

-----------------------------------------------------------------------------
(* Requests served while imports run: the steps of the importer and the     *)
(* reads of a request interleave freely.                                    *)

EventsRead == {RecSteps, RecGlucose, ActDay0}
RangesRead == {"24h", "14d"}

NextRead ==
    \/ StartImport(1)
    \/ CreateTablesStep(1)
    \/ \E e \in EventsRead : ParseEvent(1, e)
    \/ EndOfStream(1)
    \/ CreateIndexes(1)
    \/ Commit(1)
    \/ \E range_param \in RangesRead : StartRequest("data", range_param)
    \/ StartRequest("snapshot", "")
    \/ Serve

SpecRead == Init /\ [][NextRead]_vars

-----------------------------------------------------------------------------
(* Claims about the aggregation engine *)

\* a data request was answered with the series of its range
Answered ==
    /\ rd.pc = "done"
    /\ rd.kind = "data"
    /\ ~IsError(rd.response)
    /\ rd.response.labels # <<>>

Axis == date_range(rd.start_date, rd.end_date, Config(rd.range_param).freq)

\* the rows of the store of one type whose timestamp lies in the bucket of a tick
RowsInBucket(type, tick) ==
    LET Sel(r) == /\ r.type = type
                  /\ IsStamp(r.start_date)
                  /\ Floor(r.start_date.stamp, Config(rd.range_param).freq) = tick
    IN  SelectSeq(db.records.rows, Sel)

\* those of them inside the window [start_date, end_date] of the request
RowsInBucketInWindow(type, tick) ==
    LET Sel(r) == r.start_date.stamp >= rd.start_date /\ r.start_date.stamp <= rd.end_date
    IN  SelectSeq(RowsInBucket(type, tick), Sel)

AllZero(rows) == \A k \in DOMAIN rows : rows[k].value = Num(0)

\* the bucketed series of a metric before smoothing, on the axis, unrounded
Bucketed(m) ==
    Reindex(fetch_and_resample(db, m.type, rd.start_date, rd.end_date,
                               Config(rd.range_param).freq, m.agg, 1),
            Config(rd.range_param).freq, Axis).values

\* C2: with a smoothing window N > 1, a bucket that is a gap in the bucketed
\* series is still a gap after the trailing moving average, and the average
\* of a bucket that has a value is the mean of the values of its window, a
\* gap in the window counting for nothing
C2_SmoothingKeepsGaps ==
    (Answered /\ Config(rd.range_param).smoothing > 1) =>
        \A i \in DOMAIN METRICS : \A k \in DOMAIN Axis :
            LET raw == Bucketed(METRICS[i])
                N == Config(rd.range_param).smoothing
                out == rd.response[METRICS[i].key][k]
            IN  IF isna(raw[k]) THEN out = None
                ELSE out = RoundQ(Mean(SubSeq(raw, IF k > N THEN k - N + 1 ELSE 1, k)), 100)

\* C3: with daily summaries stored for day 0 and day 2 only, on an hourly
\* axis that spans day 0 through day 2, every tick of day 0 carries day 0's
\* exercise minutes, every tick of day 1 is a gap and every tick of day 2
\* carries day 2's exercise minutes
C3_DailyValueOnEveryHour ==
    (/\ Answered
     /\ Config(rd.range_param).freq = "h"
     /\ db.activity_summaries.rows # <<>>
     /\ {db.activity_summaries.rows[j].date : j \in DOMAIN db.activity_summaries.rows}
            = {DayStr(0), DayStr(2)}
     /\ Axis[1] <= DayStart(0)
     /\ Axis[Len(Axis)] = DayStart(3) - InstantsPerHour) =>
        \A k \in DOMAIN Axis :
            /\ DayOf(Axis[k]) = 1 => rd.response.exercise_minutes[k] = None
            /\ \A j \in DOMAIN db.activity_summaries.rows :
                  db.activity_summaries.rows[j].date = DayStr(DayOf(Axis[k])) =>
                      rd.response.exercise_minutes[k] =
                          RoundQ(db.activity_summaries.rows[j].apple_exercise_time, 100)

\* C4: with smoothing window 1, for sum and mean alike, a tick is a gap if
\* and only if no stored row of the metric falls in the tick's bucket; a
\* bucket whose rows sum to 0 is the number 0
C4_GapIffNoStoredRow ==
    (Answered /\ Config(rd.range_param).smoothing = 1) =>
        \A i \in DOMAIN METRICS : \A k \in DOMAIN Axis :
            LET rows == RowsInBucket(METRICS[i].type, Axis[k])
                out == rd.response[METRICS[i].key][k]
            IN  /\ out = None <=> rows = <<>>
                /\ (rows # <<>> /\ AllZero(rows)) => out = Num(0)

\* C4, amended: with smoothing window 1, for sum and mean alike, a tick is a
\* gap if and only if no stored row of the metric with a timestamp inside
\* the window [startTime, endTime] of the request falls in the tick's
\* bucket; a bucket whose rows sum to 0 is the number 0
C4_GapIffNoRowInWindow ==
    (Answered /\ Config(rd.range_param).smoothing = 1) =>
        \A i \in DOMAIN METRICS : \A k \in DOMAIN Axis :
            LET rows == RowsInBucketInWindow(METRICS[i].type, Axis[k])
                out == rd.response[METRICS[i].key][k]
            IN  /\ out = None <=> rows = <<>>
                /\ (rows # <<>> /\ AllZero(rows)) => out = Num(0)

\* a response without smoothing where the steps of one bucket sum to 0 and
\* show as the number 0, a bucket between two buckets with rows is a gap,
\* and a stored row past the end of the window leaves its tick a gap
C4_Witness ==
    /\ Answered
    /\ Config(rd.range_param).smoothing = 1
    /\ \E k \in DOMAIN Axis :
          /\ RowsInBucket(STEPS, Axis[k]) # <<>>
          /\ rd.response.steps[k] = Num(0)
    /\ \E j, k, l \in DOMAIN Axis :
          /\ j < k /\ k < l
          /\ rd.response.steps[j] # None
          /\ rd.response.steps[k] = None
          /\ rd.response.steps[l] # None
    /\ \E k \in DOMAIN Axis :
          /\ RowsInBucket(GLUCOSE, Axis[k]) # <<>>
          /\ rd.response.glucose[k] = None

\* C9: a request that found the records table absent or without rows at one
\* of its reads answers with the all-empty response and never with an error
C9_EmptyStoreGivesEmptyResponse ==
    (rd.pc = "done" /\ rd.saw_empty) =>
        rd.response = IF rd.kind = "data" THEN EmptyData ELSE EmptySnapshot

-----------------------------------------------------------------------------
(* Claims about the daily summaries and the order of an import run *)

\* C11: in every state the daily-summaries table holds at most one row per
\* date, and after a completed import its rows are, for every date of the
\* document, the field values of the last daily-summary element of that date
C11_OneRowPerDate ==
    /\ \A j, k \in DOMAIN db.activity_summaries.rows :
          db.activity_summaries.rows[j].date = db.activity_summaries.rows[k].date => j = k
    /\ imp[1].pc = "done" =>
          SameRows(db.activity_summaries.rows, DerivedActivities(imp[1].doc))

\* a completed import of a document with two daily summaries of day 0, the
\* second with other field values, has stored the second only
C11_Witness ==
    /\ imp[1].pc = "done"
    /\ \E j, k \in DOMAIN imp[1].doc :
          j < k /\ imp[1].doc[j] = ActDay0 /\ imp[1].doc[k] = ActDay0Again
    /\ db.activity_summaries.rows = <<ActivityRow(ActDay0Again.attrib)>>

\* the store as importer i sees it: its open transaction, or the committed store
View(i) == IF imp[i].txn = None THEN db ELSE imp[i].txn

\* C12: in every step of an import run, (a) the first insert of the run
\* finds the three tables dropped and re-created: present, empty and without
\* indexes; (b) an index is created only when every row the document yields
\* has been flushed, for all three tables; (c) rows become durable only
\* together with, or after, all four indexes
C12_OrderOfOneRun ==
    [][ /\ (imp[1].txn = None /\ imp'[1].txn # None) =>
              /\ \A t \in Tables : db[t] = EmptyTable
              /\ db.indexes = {}
        /\ (View(1)'.indexes \ View(1).indexes # {}) =>
              /\ imp[1].pc = "index"
              /\ \A t \in Tables : SameRows(View(1)[t].rows, Derived(imp[1].doc)[t])
        /\ (\E t \in Tables : db'[t].rows # db[t].rows /\ db'[t].rows # <<>>) =>
              /\ imp[1].pc = "commit"
              /\ db'.indexes = AllIndexes
      ]_vars

\* a second import has completed with measurements and a workout stored and
\* all four indexes in place
C12_Witness ==
    /\ nimports = 2
    /\ imp[1].pc = "done"
    /\ db.records.rows # <<>>
    /\ db.workouts.rows # <<>>
    /\ db.indexes = AllIndexes

-----------------------------------------------------------------------------
(* Imports of documents of workout sessions: the same run of import_from_xml *)
(* on documents one event longer, made of Workout and WorkoutStatistics     *)
(* elements.                                                                *)

MaxWorkoutEvents == MaxEvents + 1

EventsWorkout == {WorkoutStart, StatDistance, StatEnergy, StatOther, WorkoutEnd}

\* one event of a workout document goes through the loop body
ParseWorkoutEvent(i, e) ==
    /\ imp[i].pc = "parse"
    /\ Len(imp[i].doc) < MaxWorkoutEvents
    /\ WellFormedNext(imp[i].doc, e)
    /\ imp[i].txn # None \/ ~LockedByOther(i)
    /\ imp' = [imp EXCEPT ![i] = Handle([@ EXCEPT !.doc = Append(@, e)], e)]
    /\ UNCHANGED <<db, nimports, rd, nrequests>>

NextWorkout ==
    \/ StartImport(1)
    \/ CreateTablesStep(1)
    \/ \E e \in EventsWorkout : ParseWorkoutEvent(1, e)
    \/ EndOfStream(1)
    \/ CreateIndexes(1)
    \/ Commit(1)

SpecWorkout == Init /\ [][NextWorkout]_vars

\* between the Workout start at j and the position k there is no statistic
\* with Distance or EnergyBurned in its type
NoKnownStat(doc, j, k) ==
    LastStat(doc, j, k, "Distance") = 0 /\ LastStat(doc, j, k, "EnergyBurned") = 0

\* C13: the workout batch grows only at a Workout end that finds a session
\* open (the last Workout event before it is a start), by exactly the one row
\* of that session; every such end adds its row; and the row of a session
\* without a distance or energy statistic has distance, distance unit, energy
\* and energy unit null
C13_RowOnlyAtClose ==
    [][ LET doc == imp'[1].doc
            n == Len(doc)
            read == imp[1].pc = "parse" /\ n = Len(imp[1].doc) + 1
            close == read /\ IsWorkoutEnd(doc[n]) /\ OpenerOf(doc, n) # 0
        IN  /\ (imp'[1].workout_batch # imp[1].workout_batch /\ imp'[1].workout_batch # <<>>)
                  => close
            /\ close =>
                  /\ imp'[1].workout_batch =
                        Append(imp[1].workout_batch, DerivedWorkout(doc, n))
                  /\ NoKnownStat(doc, OpenerOf(doc, n), n) =>
                        LET row == imp'[1].workout_batch[Len(imp'[1].workout_batch)]
                        IN  /\ row.total_distance = None
                            /\ row.total_distance_unit = None
                            /\ row.total_energy_burned = None
                            /\ row.total_energy_burned_unit = None
      ]_vars

\* a session whose only statistic is a heart rate has been closed and its
\* row, with the four fields null, is the one row of the batch
C13_Witness ==
    /\ imp[1].pc = "parse"
    /\ imp[1].doc = <<WorkoutStart, StatOther, WorkoutEnd>>
    /\ Len(imp[1].workout_batch) = 1
    /\ imp[1].workout_batch[1].total_distance = None
    /\ imp[1].workout_batch[1].total_energy_burned_unit = None
    /\ imp[1].workout_batch[1].activity_type = Str("HKWorkoutActivityTypeCycling")

RECURSIVE LoopOver(_, _)
\* the locals after the loop body has handled the events of doc, from s
LoopOver(s, doc) ==
    IF doc = <<>> THEN s
    ELSE LoopOver(Handle([s EXCEPT !.doc = Append(@, Head(doc))], Head(doc)), Tail(doc))

DistanceLike(e) == IsStatEnd(e) /\ Contains(e.attrib.type, "Distance")
EnergyLike(e) ==
    IsStatEnd(e) /\ ~Contains(e.attrib.type, "Distance") /\ Contains(e.attrib.type, "EnergyBurned")

\* a document that ends with a session of exactly two statistics, one for
\* distance and one for energy, in either order
TwoStatSession(doc) ==
    /\ Len(doc) >= 4
    /\ IsWorkoutStart(doc[Len(doc) - 3])
    /\ IsWorkoutEnd(doc[Len(doc)])
    /\ \/ DistanceLike(doc[Len(doc) - 2]) /\ EnergyLike(doc[Len(doc) - 1])
       \/ EnergyLike(doc[Len(doc) - 2]) /\ DistanceLike(doc[Len(doc) - 1])

\* the document with the two statistics of its last session exchanged
Exchanged(doc) ==
    [k \in DOMAIN doc |->
        IF k = Len(doc) - 2 THEN doc[Len(doc) - 1]
        ELSE IF k = Len(doc) - 1 THEN doc[Len(doc) - 2]
        ELSE doc[k]]

\* C14: when a session with one distance and one energy statistic has been
\* closed, its row carries both, and it is the row the same session gives
\* with the two statistics in the other order
C14_StatisticsInEitherOrder ==
    (imp[1].pc = "parse" /\ TwoStatSession(imp[1].doc)) =>
        LET batch == imp[1].workout_batch
            other == LoopOver([ImpIdle EXCEPT !.pc = "parse"], Exchanged(imp[1].doc)).workout_batch
        IN  /\ batch # <<>>
            /\ Len(other) = Len(batch)
            /\ batch[Len(batch)] = other[Len(other)]
            /\ batch[Len(batch)].total_distance # None
            /\ batch[Len(batch)].total_energy_burned # None

\* a session whose energy statistic came before its distance statistic has
\* been closed, and its row carries both
C14_Witness ==
    /\ imp[1].pc = "parse"
    /\ imp[1].doc = <<WorkoutStart, StatEnergy, StatDistance, WorkoutEnd>>
    /\ Len(imp[1].workout_batch) = 1
    /\ imp[1].workout_batch[1].total_distance = Num(7)
    /\ imp[1].workout_batch[1].total_distance_unit = Str("km")
    /\ imp[1].workout_batch[1].total_energy_burned = Num(140)
    /\ imp[1].workout_batch[1].total_energy_burned_unit = Str("kcal")

-----------------------------------------------------------------------------
(* Claims about the shape of a data response *)

SeriesKeys ==
    {METRICS[i].key : i \in DOMAIN METRICS} \cup {"exercise_minutes"}

\* C15: in every data response each of the eight series has exactly one
\* entry, a number or a gap, per label; and the labels of a response with
\* data are the ticks of the regular axis from the start to the end of the
\* window at the granularity of the range, none left out
C15_NoTickDropped ==
    (rd.pc = "done" /\ rd.kind = "data" /\ ~IsError(rd.response)) =>
        /\ \A key \in SeriesKeys :
              /\ Len(rd.response[key]) = Len(rd.response.labels)
              /\ \A k \in DOMAIN rd.response[key] :
                    rd.response[key][k] = None \/ IsNum(rd.response[key][k])
        /\ Answered =>
              LET freq == Config(rd.range_param).freq
              IN  /\ Len(rd.response.labels) = (rd.end_date - rd.start_date) \div FreqStep(freq) + 1
                  /\ \A k \in DOMAIN rd.response.labels :
                        rd.response.labels[k] = Label(rd.start_date + (k - 1) * FreqStep(freq), freq)

\* a response where the steps have numbers on some ticks and gaps on others
\* and the heart rate, which has no rows, is a gap on every tick
C15_Witness ==
    /\ Answered
    /\ \E j, k \in DOMAIN rd.response.labels :
          rd.response.steps[j] # None /\ rd.response.steps[k] = None
    /\ Len(rd.response.heart_rate) = Len(rd.response.labels)
    /\ \A k \in DOMAIN rd.response.heart_rate : rd.response.heart_rate[k] = None

-----------------------------------------------------------------------------
(* fetch_and_resample and series_to_list called on a window of three hours  *)
(* that starts at t0: hourly, without smoothing.  The stores hold what an   *)
(* import of these measurements leaves; t0 is on the hour or not.           *)

B0 == Instant(2, 8, 0)      \* day 2, 08:00:00

ResampleCandidates ==
    { RecordEnd(GLUCOSE, "100", B0),
      RecordEnd(GLUCOSE, "140", B0 + InstantsPerHour - 1),
      RecordEnd(GLUCOSE, "140", B0 + 2 * InstantsPerHour),
      RecordEnd(GLUCOSE, "140", B0 + 3 * InstantsPerHour - 1),
      RecordEnd(GLUCOSE, "100", B0 + 3 * InstantsPerHour),
      RecordEnd(STEPS, "5", B0),
      RecordEnd(STEPS, "0", B0 + InstantsPerHour),
      RecordEnd(STEPS, "7", B0 + 2 * InstantsPerHour),
      RecordEnd(STEPS, "5", B0 + 4 * InstantsPerHour) }

ResampleStores ==
    { StoreOf(R, {}) : R \in {X \in SUBSET ResampleCandidates : Cardinality(X) <= MaxRows} }

InitResample ==
    /\ db \in ResampleStores
    /\ imp = [i \in Importers |-> ImpIdle]
    /\ nimports = 0
    /\ rd = RdIdle
    /\ nrequests = 0

\* series_to_list(fetch_and_resample(data_type, t0, t0 + 3h, "h", agg, 1), common_idx)
\* with common_idx = pd.date_range(t0, t0 + 3h, freq="h")
ResampleCall(m, t0) ==
    /\ rd.pc \in {"idle", "done"}
    /\ nrequests < MaxRequests
    /\ nrequests' = nrequests + 1
    /\ LET end == t0 + 3 * InstantsPerHour
       IN  rd' = [RdIdle EXCEPT
                    !.pc = "done", !.kind = "resample", !.range_param = m.key,
                    !.start_date = t0, !.end_date = end,
                    !.response = series_to_list(
                        fetch_and_resample(db, m.type, t0, end, "h", m.agg, 1),
                        "h", date_range(t0, end, "h"))]
    /\ UNCHANGED <<db, imp, nimports>>

NextResample ==
    \E i \in DOMAIN METRICS : \E t0 \in {B0, B0 + InstantsPerHour - 1} :
        ResampleCall(METRICS[i], t0)

SpecResample == InitResample /\ [][NextResample]_vars

\* the metric of a call
CalledMetric == CHOOSE m \in {METRICS[i] : i \in DOMAIN METRICS} : m.key = rd.range_param

\* the values of the stored rows of a type with a timestamp in [lo, hi)
ValuesBetween(type, lo, hi) ==
    LET Sel(r) == r.type = type /\ r.start_date.stamp >= lo /\ r.start_date.stamp < hi
        rows == SelectSeq(db.records.rows, Sel)
    IN  [k \in DOMAIN rows |-> rows[k].value]

\* every stored row of the type lies inside [lo, hi]
AllInside(type, lo, hi) ==
    \A k \in DOMAIN db.records.rows :
        db.records.rows[k].type = type =>
            db.records.rows[k].start_date.stamp >= lo /\ db.records.rows[k].start_date.stamp <= hi

\* the list of a call is, tick by tick, the aggregate of the rows in the
\* hour that starts at the tick, and a gap where there is none
HourlyAggregates ==
    LET m == CalledMetric
    IN  /\ Len(rd.response) = 4
        /\ \A k \in 1..4 :
              LET tick == rd.start_date + (k - 1) * InstantsPerHour
                  vals == ValuesBetween(m.type, tick, tick + InstantsPerHour)
              IN  rd.response[k] =
                     IF vals = <<>> THEN None
                     ELSE IF m.agg = "sum" THEN RoundQ(SumSeq(vals), 100)
                     ELSE RoundQ(QDiv(SumSeq(vals), Len(vals)), 100)
        /\ (/\ m.type = GLUCOSE
            /\ ValuesBetween(GLUCOSE, rd.start_date, rd.start_date + 1) = <<Num(100)>>
            /\ ValuesBetween(GLUCOSE, rd.start_date + 1, rd.start_date + 2 * InstantsPerHour) = <<>>
            /\ ValuesBetween(GLUCOSE, rd.start_date + 2 * InstantsPerHour,
                             rd.start_date + 2 * InstantsPerHour + 1) = <<Num(140)>>
            /\ ValuesBetween(GLUCOSE, rd.start_date + 2 * InstantsPerHour + 1,
                             rd.end_date + 1) = <<>>)
              => rd.response = <<Num(100), None, Num(140), None>>

\* C16: for any start time t0 and stored rows of a metric all inside
\* [t0, t0 + 3h], hourly and without smoothing, the value at each tick is the
\* aggregate of the rows in that tick's hour and a gap elsewhere; rows
\* (t0, 100) and (t0 + 2h, 140) give [100, gap, 140, gap]
C16_HourlyAggregates ==
    (rd.pc = "done" /\ AllInside(CalledMetric.type, rd.start_date, rd.end_date))
        => HourlyAggregates

\* C16, amended: the same for any start time t0 that is the start of an hour
C16_HourlyAggregatesOnTheHour ==
    (/\ rd.pc = "done"
     /\ rd.start_date % InstantsPerHour = 0
     /\ AllInside(CalledMetric.type, rd.start_date, rd.end_date))
        => HourlyAggregates

\* the call for glucose on the store of the rows (t0, 100) and (t0 + 2h, 140),
\* t0 on the hour, has given [100, gap, 140, gap]
C16_Witness ==
    /\ rd.pc = "done"
    /\ rd.range_param = "glucose"
    /\ rd.start_date = B0
    /\ ValuesBetween(GLUCOSE, B0, B0 + 4 * InstantsPerHour) = <<Num(100), Num(140)>>
       \/ ValuesBetween(GLUCOSE, B0, B0 + 4 * InstantsPerHour) = <<Num(140), Num(100)>>
    /\ rd.response = <<Num(100), None, Num(140), None>>

-----------------------------------------------------------------------------
(* Claims about the smoothing and the independence of the metrics *)

\* the positions of the axis between the first and the last bucket of the
\* bucketed series of a metric
FirstBucket(raw) == CHOOSE k \in DOMAIN raw : ~isna(raw[k]) /\ \A j \in 1..(k - 1) : isna(raw[j])
LastBucket(raw) == CHOOSE k \in DOMAIN raw : ~isna(raw[k]) /\ \A j \in (k + 1)..Len(raw) : isna(raw[j])
HasBucket(raw) == \E k \in DOMAIN raw : ~isna(raw[k])

\* the average of the buckets of a window: of those that hold a value, a
\* gap when none does
AverageOf(w) ==
    IF CountSeq(w) = 0 THEN None ELSE RoundQ(QDiv(SumSeq(w), CountSeq(w)), 100)

\* C17: with window 1 the series of a response is the bucketed series
\* unchanged; with window N the value at the i-th bucket, counted from the
\* first bucket of the series, is the average of the last min(N, i) buckets
\* up to and including that bucket
C17_TrailingAverage ==
    Answered =>
        \A m \in DOMAIN METRICS :
            LET raw == Bucketed(METRICS[m])
                N == Config(rd.range_param).smoothing
                out == rd.response[METRICS[m].key]
            IN  IF N = 1
                THEN \A k \in DOMAIN Axis :
                        out[k] = IF isna(raw[k]) THEN None ELSE RoundQ(raw[k], 100)
                ELSE HasBucket(raw) =>
                        \A k \in FirstBucket(raw)..LastBucket(raw) :
                            LET i == k - FirstBucket(raw) + 1
                                n == IF N < i THEN N ELSE i
                            IN  out[k] = AverageOf(SubSeq(raw, k - n + 1, k))

\* a smoothed response where a bucket that has fewer than N buckets behind it
\* carries the average of its own value and a different one before it
C17_Witness ==
    /\ Answered
    /\ Config(rd.range_param).smoothing > 1
    /\ \E m \in DOMAIN METRICS :
          LET raw == Bucketed(METRICS[m])
              out == rd.response[METRICS[m].key]
          IN  /\ HasBucket(raw)
              /\ \E k \in FirstBucket(raw)..LastBucket(raw) :
                    /\ k > FirstBucket(raw)
                    /\ k - FirstBucket(raw) + 1 < Config(rd.range_param).smoothing
                    /\ ~isna(raw[k])
                    /\ out[k] # None
                    /\ out[k] # RoundQ(raw[k], 100)

-----------------------------------------------------------------------------
(* Claims about measurements whose value is no number *)

\* a measurement of an allowed type whose value is missing or is no number
NoNumber(e) ==
    /\ IsRecordEnd(e)
    /\ Get(e.attrib, "type", Str("")) \in ALLOWED_RECORD_TYPES
    /\ ~ValidRecord(e)

\* the daily summaries of a document that carry a date
DatedSummaries(doc) ==
    {k \in DOMAIN doc : IsActivityEnd(doc[k]) /\ Get(doc[k].attrib, "dateComponents", None) # None
                          /\ Get(doc[k].attrib, "dateComponents", None) # Str("")}

\* C18: a measurement of an allowed type whose value is missing or does not
\* parse as a number is dropped without error: the import does not fail on
\* it, it adds no row to the measurements table, the returned total does not
\* count it, and the elements after it are imported
C18_NoNumberDropped ==
    LET doc == imp[1].doc
    IN  (/\ \E k \in DOMAIN doc : NoNumber(doc[k])
         /\ ~Has(doc, Malformed)
         /\ \A k \in DOMAIN doc : ~(ValidRecord(doc[k]) /\ DateDefect(doc[k])))
        => /\ imp[1].pc # "failed"
           /\ imp[1].pc = "done" =>
                /\ SameRows(db.records.rows, DerivedRecords(doc))
                /\ imp[1].result = Num(Len(DerivedRecords(doc))
                                       + Cardinality(DatedSummaries(doc))
                                       + Len(DerivedWorkouts(doc)))

-----------------------------------------------------------------------------
(* Claims about the independence of the metrics on the shared axis *)

\* the store with the measurements of one type alone
OnlyType(store, type) ==
    LET Own(r) == r.type = type
    IN  [store EXCEPT !.records.rows = SelectSeq(@, Own)]

\* the store without any measurement
NoMeasurements(store) == [store EXCEPT !.records.rows = <<>>]

\* C19: on the shared axis of a response, the list of a metric is what its
\* own stored rows give on that axis: the rows of the other metrics, whatever
\* they are, change no value and no gap of it
C19_OwnRowsOnly ==
    Answered =>
        LET config == Config(rd.range_param)
        IN  /\ \A m \in DOMAIN METRICS :
                  rd.response[METRICS[m].key] =
                      series_to_list(
                          fetch_and_resample(OnlyType(db, METRICS[m].type), METRICS[m].type,
                                             rd.start_date, rd.end_date, config.freq,
                                             METRICS[m].agg,
                                             config.smoothing),
                          config.freq, Axis)
            /\ rd.response.exercise_minutes =
                  series_to_list(
                      fetch_exercise_minutes(NoMeasurements(db), rd.start_date, rd.end_date,
                                             config.freq),
                      config.freq, Axis)

\* a response where glucose has a value at a tick where steps has a gap, and
\* steps has a value at a tick where glucose has a gap
C19_Witness ==
    /\ Answered
    /\ \E k \in DOMAIN rd.response.labels :
          rd.response.glucose[k] # None /\ rd.response.steps[k] = None
    /\ \E k \in DOMAIN rd.response.labels :
          rd.response.glucose[k] = None /\ rd.response.steps[k] # None

-----------------------------------------------------------------------------
(* The read path on a database file that holds measurements and has no      *)
(* activity_summaries table.                                                *)

StoresNoSummaries ==
    { [StoreOf(R, {}) EXCEPT !.activity_summaries = AbsentTable, !.indexes = {}] :
        R \in {X \in SUBSET RecordCandidates : X # {} /\ Cardinality(X) <= MaxRows} }

InitNoSummaries ==
    /\ db \in StoresNoSummaries
    /\ imp = [i \in Importers |-> ImpIdle]
    /\ nimports = 0
    /\ rd = RdIdle
    /\ nrequests = 0

SpecNoSummaries == InitNoSummaries /\ [][Request]_vars

\* C20: when the measurements table has data and the daily-summaries table
\* is absent, a data or snapshot request does not fail; the exercise-minutes
\* series is a gap at every tick of the axis, the exercise scalars are null,
\* and the measurement series and scalars are what the measurements give
C20_AbsentSummariesDegrade ==
    (rd.pc = "done" /\ db.records.rows # <<>> /\ ~db.activity_summaries.present) =>
        /\ ~IsError(rd.response)
        /\ rd.kind = "data" =>
              LET config == Config(rd.range_param)
              IN  /\ rd.response.labels # <<>>
                  /\ Len(rd.response.exercise_minutes) = Len(rd.response.labels)
                  /\ \A k \in DOMAIN rd.response.exercise_minutes :
                        rd.response.exercise_minutes[k] = None
                  /\ rd.response.avg_exercise_minutes = None
                  /\ \A m \in DOMAIN METRICS :
                        rd.response[METRICS[m].key] =
                            series_to_list(
                                fetch_and_resample(db, METRICS[m].type, rd.start_date,
                                                   rd.end_date, config.freq, METRICS[m].agg,
                                                   config.smoothing),
                                config.freq, Axis)
                  /\ rd.response.avg_glucose = AvgGlucose(db, rd.start_date, rd.end_date)
                  /\ rd.response.avg_daily_steps =
                        AvgDailySteps(StepsSum(db, rd.start_date, rd.end_date), config)
        /\ rd.kind = "snapshot" =>
              /\ rd.response.exercise_minutes = None
              /\ (rd.response.latest_glucose # None) <=>
                    (\E k \in DOMAIN db.records.rows : db.records.rows[k].type = GLUCOSE)

\* a data request on such a file was answered with step counts and with the
\* exercise minutes a gap at every tick
C20_Witness ==
    /\ rd.pc = "done"
    /\ rd.kind = "data"
    /\ ~db.activity_summaries.present
    /\ ~IsError(rd.response)
    /\ \E k \in DOMAIN rd.response.steps : rd.response.steps[k] # None
    /\ rd.response.exercise_minutes # <<>>
    /\ \A k \in DOMAIN rd.response.exercise_minutes : rd.response.exercise_minutes[k] = None
    /\ rd.response.avg_exercise_minutes = None

-----------------------------------------------------------------------------
(* Claims about the scalars of a data response *)

\* the values of the stored step counts inside the window of the request
StepsInWindow ==
    LET Sel(r) == /\ r.type = STEPS
                  /\ r.start_date.stamp >= rd.start_date
                  /\ r.start_date.stamp <= rd.end_date
        rows == SelectSeq(db.records.rows, Sel)
    IN  [k \in DOMAIN rows |-> rows[k].value]

\* the calendar days of the requested range, floored at 1
DaysOfRange ==
    LET days == Config(rd.range_param).delta \div HoursPerDay
    IN  IF days < 1 THEN 1 ELSE days

\* C21: the average daily steps of a data response is the step total over
\* the window divided by the number of calendar days of the requested range,
\* the divisor floored at 1 (as a whole number of steps); days without step
\* data count in the divisor; it is null only when the window holds no step
\* count
C21_AvgDailySteps ==
    Answered =>
        rd.response.avg_daily_steps =
            IF StepsInWindow = <<>> THEN None
            ELSE RoundQ(QDiv(SumSeq(StepsInWindow), DaysOfRange), 1)

-----------------------------------------------------------------------------
(* Imports of documents where a Workout element lies inside another one *)

RunAttrib ==
    [workoutActivityType |-> Str("HKWorkoutActivityTypeRunning"), duration |-> Str("45"),
     sourceName |-> Str("Watch"), startDate |-> Stamp(T0, " -0700"),
     endDate |-> Stamp(T0, " -0700")]
RunStart == Elem("start", "Workout", RunAttrib)
RunEnd == Elem("end", "Workout", RunAttrib)

MaxNestedEvents == MaxEvents + 2

EventsNested == {WorkoutStart, WorkoutEnd, RunStart, RunEnd, StatDistance}

RECURSIVE OpenElements(_)
\* the attributes of the Workout elements that are open after doc, the
\* innermost last
OpenElements(doc) ==
    IF doc = <<>> THEN <<>>
    ELSE LET e == doc[Len(doc)]
             rest == OpenElements(SubSeq(doc, 1, Len(doc) - 1))
         IN  IF IsWorkoutStart(e) THEN Append(rest, e.attrib)
             ELSE IF IsWorkoutEnd(e) THEN SubSeq(rest, 1, Len(rest) - 1)
             ELSE rest

\* one event of such a document goes through the loop body; an end event is
\* the end of the innermost open element
ParseNestedEvent(i, e) ==
    /\ imp[i].pc = "parse"
    /\ Len(imp[i].doc) < MaxNestedEvents
    /\ IsWorkoutEnd(e) =>
          /\ OpenElements(imp[i].doc) # <<>>
          /\ e.attrib = OpenElements(imp[i].doc)[Len(OpenElements(imp[i].doc))]
    /\ imp[i].txn # None \/ ~LockedByOther(i)
    /\ imp' = [imp EXCEPT ![i] = Handle([@ EXCEPT !.doc = Append(@, e)], e)]
    /\ UNCHANGED <<db, nimports, rd, nrequests>>

NextNested ==
    \/ StartImport(1)
    \/ CreateTablesStep(1)
    \/ \E e \in EventsNested : ParseNestedEvent(1, e)
    \/ EndOfStream(1)
    \/ CreateIndexes(1)
    \/ Commit(1)

SpecNested == Init /\ [][NextNested]_vars

\* the Workout ends of a document that find a session open: those whose
\* last Workout event before them is a start
ClosesOfOpen(doc) == {k \in DOMAIN doc : IsWorkoutEnd(doc[k]) /\ OpenerOf(doc, k) # 0}

\* position k closes the outer element of a nested pair: an end whose last
\* Workout event before it is an end
ClosesOuter(doc, k) == IsWorkoutEnd(doc[k]) /\ OpenerOf(doc, k) = 0

\* C22: at every point of the parse there is at most one session open, the
\* one of the last Workout start when no Workout end came after it; a
\* Workout start inside an open session discards that session, of which
\* nothing is committed; the inner session is committed at its own end, with
\* its own attributes and the statistics between its start and its end; the
\* end of the outer one commits no row: a nested pair gives one row
C22_SingleSlotBuilder ==
    LET doc == imp[1].doc
        s == imp[1]
    IN  /\ s.pc = "parse" =>
              /\ s.workout_pending # None <=>
                    (OpenElements(doc) # <<>> /\ OpenerOf(doc, Len(doc) + 1) # 0)
              /\ s.workout_pending # None =>
                    s.workout_pending.activity_type =
                        OpenElements(doc)[Len(OpenElements(doc))].workoutActivityType
              /\ Len(s.workout_batch) = Cardinality(ClosesOfOpen(doc))
              /\ s.workout_batch = DerivedWorkouts(doc)
        /\ s.pc = "done" =>
              /\ Len(db.workouts.rows) =
                    Cardinality({k \in DOMAIN doc : IsWorkoutEnd(doc[k])})
                    - Cardinality({k \in DOMAIN doc : ClosesOuter(doc, k)})
              /\ SameRows(db.workouts.rows, DerivedWorkouts(doc))

\* an import has completed on a cycling session with a distance statistic
\* and, inside it, a running session: the one row stored is the running
\* session's, without a distance
C22_Witness ==
    /\ imp[1].pc = "done"
    /\ imp[1].doc = <<WorkoutStart, StatDistance, RunStart, RunEnd, WorkoutEnd>>
    /\ Len(db.workouts.rows) = 1
    /\ db.workouts.rows[1].activity_type = Str("HKWorkoutActivityTypeRunning")
    /\ db.workouts.rows[1].duration = Num(45)
    /\ db.workouts.rows[1].total_distance = None
    /\ db.workouts.rows[1].total_distance_unit = None

-----------------------------------------------------------------------------
(* Imports of documents of daily summaries *)

ActZero == ActivityEnd(2, "0")
ActNaNField == ActivityEnd(1, "nan")
ActBadFields ==
    Elem("end", "ActivitySummary",
         [dateComponents |-> DayStr(1), appleExerciseTime |-> Str("abc"),
          activeEnergyBurnedGoal |-> Str(""), appleStandHours |-> Str("abc")])
ActEmptyDate ==
    Elem("end", "ActivitySummary", [dateComponents |-> Str(""), appleExerciseTime |-> Str("30")])

EventsSummaries == {ActDay0, ActZero, ActNaNField, ActBadFields, ActNoDate, ActEmptyDate}

\* one daily summary goes through the loop body
ParseSummaryEvent(i, e) ==
    /\ imp[i].pc = "parse"
    /\ Len(imp[i].doc) < MaxEvents
    /\ imp[i].txn # None \/ ~LockedByOther(i)
    /\ imp' = [imp EXCEPT ![i] = Handle([@ EXCEPT !.doc = Append(@, e)], e)]
    /\ UNCHANGED <<db, nimports, rd, nrequests>>

NextSummaries ==
    \/ StartImport(1)
    \/ CreateTablesStep(1)
    \/ \E e \in EventsSummaries : ParseSummaryEvent(1, e)
    \/ EndOfStream(1)
    \/ CreateIndexes(1)
    \/ Commit(1)

SpecSummaries == Init /\ [][NextSummaries]_vars

\* the attribute of each numeric column of activity_summaries
SummaryFields ==
    [apple_exercise_time |-> "appleExerciseTime",
     active_energy_burned |-> "activeEnergyBurned",
     active_energy_burned_goal |-> "activeEnergyBurnedGoal",
     apple_stand_hours |-> "appleStandHours",
     apple_stand_hours_goal |-> "appleStandHoursGoal"]

\* the text is a numeral
Numeral(v) == v # None /\ IsStr(v) /\ v.str \in {"0", "5", "7", "30", "45", "100", "140"}

\* a daily summary whose date-components attribute is present and not empty
Dated(e) ==
    /\ IsActivityEnd(e)
    /\ "dateComponents" \in DOMAIN e.attrib
    /\ e.attrib.dateComponents # Str("")

\* a row is the row of a daily summary: its date, the number of each
\* sub-field that is a numeral, null for each that is not
RowOf(row, e) ==
    /\ row.date = e.attrib.dateComponents
    /\ \A col \in DOMAIN SummaryFields :
          LET text == Get(e.attrib, SummaryFields[col], None)
          IN  IF Numeral(text) THEN row[col] = FloatTable[text.str]
              ELSE IsNull(row[col]) /\ row[col] # Num(0)

\* C23: a daily summary gives a row if and only if its date-components
\* attribute is present and not empty; each numeric sub-field of the row
\* that is missing, empty or no number is null, never 0; no such sub-field
\* makes the import fail or drops the row
C23_SummaryRows ==
    LET doc == imp[1].doc
        dated == Pick(Len(doc), {k \in DOMAIN doc : Dated(doc[k])})
    IN  /\ imp[1].pc # "failed"
        /\ imp[1].pc = "parse" =>
              /\ Len(imp[1].activity_batch) = Len(dated)
              /\ \A j \in DOMAIN dated : RowOf(imp[1].activity_batch[j], doc[dated[j]])
        /\ imp[1].pc = "done" =>
              /\ \A j \in DOMAIN dated :
                    LastOfItsDate(doc, dated[j]) =>
                        \E k \in DOMAIN db.activity_summaries.rows :
                            RowOf(db.activity_summaries.rows[k], doc[dated[j]])
              /\ \A k \in DOMAIN db.activity_summaries.rows :
                    \E j \in DOMAIN dated :
                        RowOf(db.activity_summaries.rows[k], doc[dated[j]])

\* an import has completed on a daily summary without date and one whose
\* sub-fields are missing, empty or no number: one row, its five sub-fields
\* null
C23_Witness ==
    /\ imp[1].pc = "done"
    /\ Has(imp[1].doc, ActNoDate)
    /\ Has(imp[1].doc, ActBadFields)
    /\ Len(db.activity_summaries.rows) = 1
    /\ db.activity_summaries.rows[1].date = DayStr(1)
    /\ \A col \in DOMAIN SummaryFields : db.activity_summaries.rows[1][col] = None

-----------------------------------------------------------------------------
(* Claims about the first and the last bucket of a data request *)

\* the aggregate of rows of the store, as a float
AggregateOf(m, rows) ==
    LET vals == [k \in DOMAIN rows |-> rows[k].value]
    IN  IF rows = <<>> THEN NaN
        ELSE IF m.agg = "sum" THEN SumSeq(vals)
        ELSE QDiv(SumSeq(vals), Len(vals))

\* the stored measurements with the latest timestamp
IsLatest(r) ==
    \A k \in DOMAIN db.records.rows : db.records.rows[k].start_date.stamp <= r.start_date.stamp

\* the bucketed value raw[k] of a metric at a tick is the aggregate of all
\* stored rows of the metric in the bucket of the tick
WholeBucket(raw, m, k) ==
    raw[k] = AggregateOf(m, RowsInBucket(m.type, Axis[k]))

\* the latest stored measurements of a metric are in the last tick of its
\* bucketed series raw
LatestContributes(raw, m) ==
    \A j \in DOMAIN db.records.rows :
        (db.records.rows[j].type = m.type /\ IsLatest(db.records.rows[j])) =>
            /\ ~isna(raw[Len(Axis)])
            /\ raw[Len(Axis)] = AggregateOf(m, RowsInBucket(m.type, Axis[Len(Axis)]))
            /\ \E k \in DOMAIN RowsInBucketInWindow(m.type, Axis[Len(Axis)]) :
                  RowsInBucketInWindow(m.type, Axis[Len(Axis)])[k] = db.records.rows[j]

\* without smoothing, the series of the response is the bucketed series raw
ShownUnsmoothed(raw, m) ==
    Config(rd.range_param).smoothing = 1 =>
        \A k \in DOMAIN raw :
            rd.response[m.key][k] = IF isna(raw[k]) THEN None ELSE RoundQ(raw[k], 100)

-----------------------------------------------------------------------------
(* Two imports that overlap: import_from_xml runs on two connections, on    *)
(* different documents, the second called while the first is running.       *)

EventsOf(i) == IF i = 1 THEN {RecSteps, ActDay0} ELSE {RecGlucose, ActDay2}

Running(i) == imp[i].pc \in {"create_tables", "parse", "index", "commit"}
Terminated(i) == imp[i].pc \in {"done", "failed"}

\* the first call
StartFirst ==
    /\ imp[1].pc = "idle"
    /\ imp[2].pc = "idle"
    /\ StartImport(1)

\* the second call, while the first has not returned
StartSecond ==
    /\ Running(1)
    /\ imp[2].pc = "idle"
    /\ StartImport(2)

\* the end of a document of at least one element
EndOfDocument(i) ==
    /\ imp[i].doc # <<>>
    /\ EndOfStream(i)

\* a statement that writes has waited for the other connection's transaction
\* longer than the connection's timeout: sqlite3.OperationalError, database
\* is locked
LockTimeout(i) ==
    /\ LockedByOther(i)
    /\ imp[i].txn = None
    /\ \/ imp[i].pc \in {"create_tables", "index"}
       \/ imp[i].pc = "parse" /\ imp[i].doc # <<>> /\ Depth(imp[i].doc) = 0
    /\ imp' = [imp EXCEPT ![i] = Raise(@, "OperationalError")]
    /\ UNCHANGED <<db, nimports, rd, nrequests>>

NextTwo ==
    \/ StartFirst
    \/ StartSecond
    \/ \E i \in Importers :
          \/ CreateTablesStep(i)
          \/ \E e \in EventsOf(i) : ParseEvent(i, e)
          \/ EndOfDocument(i)
          \/ CreateIndexes(i)
          \/ Commit(i)
          \/ LockTimeout(i)

SpecTwo == Init /\ [][NextTwo]_vars

\* every row of the three tables is a row of the document of import i
OnlyRowsOf(i) ==
    \A t \in Tables : \A k \in DOMAIN db[t].rows :
        \E j \in DOMAIN Derived(imp[i].doc)[t] : Derived(imp[i].doc)[t][j] = db[t].rows[k]

BothTerminated == Terminated(1) /\ Terminated(2)

\* C25: once two overlapping imports of different documents have both
\* terminated, the three tables hold rows of only one of the two documents,
\* and at most that one import has returned a row count
C25_NoMixtureOneSuccess ==
    BothTerminated =>
        \E i \in Importers :
            /\ OnlyRowsOf(i)
            /\ \A j \in Importers : imp[j].pc = "done" => j = i

\* C25, amended: once two overlapping imports of different documents have
\* both terminated, the three tables hold rows of only one of the two
\* documents, and rows only when an import has returned a row count; both
\* imports may have returned one, and then the tables hold the complete rows
\* of one of the two documents
C25_NoMixture ==
    BothTerminated =>
        /\ \E i \in Importers : OnlyRowsOf(i)
        /\ (\E t \in Tables : db[t].rows # <<>>) => \E i \in Importers : imp[i].pc = "done"
        /\ (imp[1].pc = "done" /\ imp[2].pc = "done") =>
              \E i \in Importers :
                  \A t \in Tables :
                      db[t].present /\ SameRows(db[t].rows, Derived(imp[i].doc)[t])

\* both imports have returned a row count, the second after the first, and
\* the tables hold the rows of the second document alone
C25_Witness ==
    /\ imp[1].pc = "done"
    /\ imp[2].pc = "done"
    /\ imp[1].result = Num(Len(imp[1].doc))
    /\ imp[2].result = Num(Len(imp[2].doc))
    /\ imp[1].doc # <<>>
    /\ db.records.rows = <<RecordRow(RecGlucose.attrib)>>
    /\ db.activity_summaries.rows = <<ActivityRow(ActDay2.attrib)>>
    /\ ~OnlyRowsOf(1)

-----------------------------------------------------------------------------
(* Claims about what a reader sees while an import runs, under SpecRead *)

\* a table of the committed store, which is what a read sees, is absent,
\* holds the rows it held when the import began, is empty, or holds the
\* complete rows of the document of the import that has committed
TableWhole(t) ==
    \/ ~db[t].present
    \/ db[t].rows = imp[1].before[t].rows
    \/ db[t].rows = <<>>
    \/ imp[1].pc = "done" /\ SameRows(db[t].rows, Derived(imp[1].doc)[t])

\* C26: at every read of a reader that runs while one import runs, each
\* table is absent, holds its complete rows from before the import, is
\* empty, or holds the complete rows of the new document; the rows of an
\* import become visible together, at its final commit, however many batch
\* flushes came before
C26_NoPartlyLoadedTable ==
    /\ [](\A t \in Tables : TableWhole(t))
    /\ [][ (\E t \in Tables : db'[t].rows # db[t].rows /\ db'[t].rows # <<>>) =>
              /\ imp[1].pc = "commit"
              /\ imp'[1].pc = "done"
              /\ \A t \in Tables : SameRows(db'[t].rows, Derived(imp[1].doc)[t]) ]_vars

\* a request is reading while the import has flushed a full batch of
\* measurements and is still parsing: the read finds the table empty
C26_Witness ==
    /\ rd.pc \in {"latest", "fetch", "latest_glucose"}
    /\ imp[1].pc = "parse"
    /\ imp[1].txn # None
    /\ Len(imp[1].txn.records.rows) = BATCH_SIZE
    /\ db.records.present
    /\ db.records.rows = <<>>

====
